---- MODULE Spec2Model ----
(***************************************************************************)
(* Model of the android_api sync endpoints: the batch upsert handlers      *)
(* (POST /customer, /sales, /payments, /visits), the helpers in            *)
(* controllers/auth.py and the in-memory rate limiter.                     *)
(*                                                                         *)
(* JSON scalars are modelled as string tokens ("1", "100", "null"), a JSON *)
(* object as a function from keys to tokens.  Each request runs in its own *)
(* database transaction (snapshot isolation, row locks, unique indexes).   *)
(***************************************************************************)
EXTENDS Integers, Sequences, FiniteSets, TLC

-----------------------------------------------------------------------------
(* Bounds of the model *)

\* number of request slots (requests that may overlap in time)
NReq == 2
\* rate limiter: number of checks and of clock advances explored
MaxChecks == 4
MaxTicks == 2
\* list endpoints: number of GET requests with a query string in a run
MaxPages == 1

-----------------------------------------------------------------------------
(* Program constants *)

RATE_LIMIT_REQUESTS == 100
RATE_LIMIT_WINDOW == 60
MAX_BATCH == 100
MAX_MEMO_LENGTH == 5000

-----------------------------------------------------------------------------
(* JSON / Python values *)

None == "null"

\* Python truthiness of a scalar: None, "", 0 and False are falsy
Falsy(v) == v \in {None, "", "0", "false"}

\* dict.get(k)
Get(d, k) == IF k \in DOMAIN d THEN d[k] ELSE None

\* {k: v for k, v in vals.items() if v is not None}
DropNone(f) == [k \in {x \in DOMAIN f : f[x] # None} |-> f[k]]

\* dict.update / record.write: keys of g override keys of f
Merge(f, g) == [k \in (DOMAIN f) \cup (DOMAIN g) |-> IF k \in DOMAIN g THEN g[k] ELSE f[k]]

\* vals.pop(k, None)
Pop(f, k) == [x \in (DOMAIN f) \ {k} |-> f[x]]

EmptyDict == [k \in {} |-> None]

-----------------------------------------------------------------------------
(* Sample strings and their characters *)

U1 == "11111111-1111-4111-8111-111111111111"
U2 == "22222222-2222-4222-a222-222222222222"
UBad == "test-uid-001"
DT1 == "2024-01-15T10:00:00"
DT2 == "2024-02-30 10:00:00"
DBad == "15/01/2024"
D1 == "2024-01-15"
DT0 == "2024-01-15T00:00:00"
DT3 == "2024-01-16T09:30:00Z"
LongMemo == "memo-of-5001-characters"

Chars(s) ==
  CASE s = U1 -> <<"1", "1", "1", "1", "1", "1", "1", "1", "-", "1", "1", "1", "1", "-", "4", "1", "1", "1", "-", "8", "1", "1", "1", "-", "1", "1", "1", "1", "1", "1", "1", "1", "1", "1", "1", "1">>
    [] s = U2 -> <<"2", "2", "2", "2", "2", "2", "2", "2", "-", "2", "2", "2", "2", "-", "4", "2", "2", "2", "-", "a", "2", "2", "2", "-", "2", "2", "2", "2", "2", "2", "2", "2", "2", "2", "2", "2">>
    [] s = UBad -> <<"t", "e", "s", "t", "-", "u", "i", "d", "-", "0", "0", "1">>
    [] s = DT1 -> <<"2", "0", "2", "4", "-", "0", "1", "-", "1", "5", "T", "1", "0", ":", "0", "0", ":", "0", "0">>
    [] s = DT2 -> <<"2", "0", "2", "4", "-", "0", "2", "-", "3", "0", " ", "1", "0", ":", "0", "0", ":", "0", "0">>
    [] s = DBad -> <<"1", "5", "/", "0", "1", "/", "2", "0", "2", "4">>
    [] s = D1 -> <<"2", "0", "2", "4", "-", "0", "1", "-", "1", "5">>
    [] s = DT0 -> <<"2", "0", "2", "4", "-", "0", "1", "-", "1", "5", "T", "0", "0", ":", "0", "0", ":", "0", "0">>
    [] s = DT3 -> <<"2", "0", "2", "4", "-", "0", "1", "-", "1", "6", "T", "0", "9", ":", "3", "0", ":", "0", "0", "Z">>
    [] s = "m" -> <<"m">>
    [] s = "A" -> <<"A">>
    [] OTHER -> <<>>

\* len(str(s)); the over-long memo is kept symbolic
StrLen(s) == IF s = LongMemo THEN MAX_MEMO_LENGTH + 1 ELSE Len(Chars(s))

Digits == {"0", "1", "2", "3", "4", "5", "6", "7", "8", "9"}
HexDigits == Digits \cup {"a", "b", "c", "d", "e", "f", "A", "B", "C", "D", "E", "F"}

DigitVal(c) ==
  CASE c = "0" -> 0 [] c = "1" -> 1 [] c = "2" -> 2 [] c = "3" -> 3 [] c = "4" -> 4
    [] c = "5" -> 5 [] c = "6" -> 6 [] c = "7" -> 7 [] c = "8" -> 8 [] c = "9" -> 9
    [] OTHER -> 0

\* UUID_REGEX.match(str(mobile_uid)), re.IGNORECASE
UUID_REGEX(s) ==
  LET c == Chars(s) IN
  /\ Len(c) = 36
  /\ \A i \in 1..36 :
       IF i \in {9, 14, 19, 24} THEN c[i] = "-"
       ELSE IF i = 15 THEN c[i] = "4"
       ELSE IF i = 20 THEN c[i] \in {"8", "9", "a", "b", "A", "B"}
       ELSE c[i] \in HexDigits

-----------------------------------------------------------------------------
(* datetime.strptime over the four accepted formats *)

NoDate == [ok |-> FALSE, Y |-> 0, m |-> 0, d |-> 0, H |-> 0, M |-> 0, S |-> 0]

FieldMax(f) == CASE f = "m" -> 12 [] f = "d" -> 31 [] f = "H" -> 23 [] f = "M" -> 59 [] f = "S" -> 61 [] OTHER -> 9999
FieldMin(f) == IF f \in {"m", "d"} THEN 1 ELSE 0

IsLeap(y) == (y % 4 = 0 /\ y % 100 # 0) \/ y % 400 = 0
DaysIn(y, m) ==
  IF m = 2 THEN (IF IsLeap(y) THEN 29 ELSE 28)
  ELSE IF m \in {4, 6, 9, 11} THEN 30 ELSE 31

\* the four digits of %Y at position i, or -1
YearAt(c, i) ==
  IF i + 3 <= Len(c) /\ \A k \in i..(i + 3) : c[k] \in Digits
  THEN 1000 * DigitVal(c[i]) + 100 * DigitVal(c[i + 1]) + 10 * DigitVal(c[i + 2]) + DigitVal(c[i + 3])
  ELSE -1

\* two digits, or one digit, of a numeric directive at position i, or -1
TwoDigits(c, i) ==
  IF i + 1 <= Len(c) /\ c[i] \in Digits /\ c[i + 1] \in Digits
  THEN 10 * DigitVal(c[i]) + DigitVal(c[i + 1]) ELSE -1
OneDigit(c, i) == IF i <= Len(c) /\ c[i] \in Digits THEN DigitVal(c[i]) ELSE -1

InField(f, n) == n >= FieldMin(f) /\ n <= FieldMax(f)

\* the first alternative that matches
FirstOk(a, b) == IF a.ok THEN a ELSE b

\* match the characters c from position i against the directives fmt from
\* position j; two-digit alternatives are tried before one-digit ones
RECURSIVE MatchFmt(_, _, _, _, _)
MatchFmt(c, i, fmt, j, acc) ==
  IF j > Len(fmt) THEN (IF i > Len(c) THEN [acc EXCEPT !.ok = TRUE] ELSE NoDate)
  ELSE IF fmt[j] = "Y" THEN
    IF YearAt(c, i) >= 0
    THEN MatchFmt(c, i + 4, fmt, j + 1, [acc EXCEPT !.Y = YearAt(c, i)])
    ELSE NoDate
  ELSE IF fmt[j] \in {"m", "d", "H", "M", "S"} THEN
    FirstOk(IF InField(fmt[j], TwoDigits(c, i))
            THEN MatchFmt(c, i + 2, fmt, j + 1, [acc EXCEPT ![fmt[j]] = TwoDigits(c, i)])
            ELSE NoDate,
            IF InField(fmt[j], OneDigit(c, i))
            THEN MatchFmt(c, i + 1, fmt, j + 1, [acc EXCEPT ![fmt[j]] = OneDigit(c, i)])
            ELSE NoDate)
  ELSE IF i <= Len(c) /\ c[i] = fmt[j] THEN MatchFmt(c, i + 1, fmt, j + 1, acc) ELSE NoDate

\* the day exists in the month and the second is no leap second
ValidDate(r) == IF r.ok /\ r.d <= DaysIn(r.Y, r.m) /\ r.S <= 59 THEN r ELSE NoDate

\* datetime.strptime(date_str, fmt): ValueError is ok = FALSE
Strptime(s, fmt) ==
  ValidDate(MatchFmt(Chars(s), 1, fmt, 1, [NoDate EXCEPT !.m = 1, !.d = 1]))

DateFormats ==
  << <<"Y", "-", "m", "-", "d", "T", "H", ":", "M", ":", "S">>,
     <<"Y", "-", "m", "-", "d", "T", "H", ":", "M", ":", "S", "Z">>,
     <<"Y", "-", "m", "-", "d", " ", "H", ":", "M", ":", "S">>,
     <<"Y", "-", "m", "-", "d">> >>

\* for fmt in formats: the formats from the k-th on, the first that parses
RECURSIVE TryFormats(_, _)
TryFormats(s, k) ==
  IF k > Len(DateFormats) THEN NoDate
  ELSE FirstOk(Strptime(s, DateFormats[k]), TryFormats(s, k + 1))

\* parse_datetime: the first format that parses wins; a falsy input and an
\* unparseable input both give no datetime
parse_datetime(s) == IF Falsy(s) THEN NoDate ELSE TryFormats(s, 1)

Pad2(n) == IF n < 10 THEN "0" \o ToString(n) ELSE ToString(n)

\* dt.strftime('%Y-%m-%dT%H:%M:%S') (years of four digits)
format_datetime(dt) ==
  IF ~dt.ok THEN None
  ELSE ToString(dt.Y) \o "-" \o Pad2(dt.m) \o "-" \o Pad2(dt.d) \o "T" \o Pad2(dt.H) \o ":" \o Pad2(dt.M) \o ":" \o Pad2(dt.S)

\* d.strftime('%Y-%m-%d')
format_date(dt) ==
  IF ~dt.ok THEN None
  ELSE ToString(dt.Y) \o "-" \o Pad2(dt.m) \o "-" \o Pad2(dt.d)

-----------------------------------------------------------------------------
(* Sample inputs *)

RecA == [mobile_uid |-> U1, name |-> "A", partner_id |-> "1", amount |-> "100", visit_datetime |-> DT1]
RecB == [mobile_uid |-> U1, name |-> "B", partner_id |-> "1", amount |-> "200", visit_datetime |-> D1, memo |-> "m", city |-> None]
RecC == [mobile_uid |-> U2, name |-> "C", partner_id |-> "1", amount |-> "100", visit_datetime |-> DT1, city |-> "X"]
RecMissing == [mobile_uid |-> U2, partner_id |-> None]
RecBadFk == [mobile_uid |-> U2, name |-> "C", partner_id |-> "999999", amount |-> "100", visit_datetime |-> DT1]
RecZeroFk == [mobile_uid |-> U2, name |-> "C", partner_id |-> "0", amount |-> "100", visit_datetime |-> DT1]
RecBadJournal == [mobile_uid |-> U2, name |-> "C", partner_id |-> "1", amount |-> "100", visit_datetime |-> DT1, journal_id |-> "999"]
RecRejected == [mobile_uid |-> U2, name |-> "C", partner_id |-> "1", amount |-> "abc", visit_datetime |-> DT1, tax_id |-> "bad-vat", date_order |-> DBad]

RecFull == [mobile_uid |-> U1, name |-> "A", partner_id |-> "1", amount |-> "100", visit_datetime |-> DT1, city |-> "X", journal_id |-> "8", memo |-> "m", date_order |-> DT1]
RecBadUid == [mobile_uid |-> UBad, name |-> "C", partner_id |-> "1", amount |-> "100", visit_datetime |-> DT1]
RecLongMemo == [mobile_uid |-> U2, name |-> "C", partner_id |-> "1", amount |-> "100", visit_datetime |-> DT1, memo |-> LongMemo]

\* request bodies: a JSON object, and JSON arrays
NotAList == [list |-> FALSE, items |-> <<>>]
Batch(items) == [list |-> TRUE, items |-> items]

\* a body of 101 records
Oversize == Batch([i \in 1..(MAX_BATCH + 1) |-> RecA])

\* bodies of valid records, sent by overlapping requests
RacePayloads ==
  { Batch(<<RecA>>), Batch(<<RecB>>), Batch(<<RecA, RecC>>), Batch(<<RecC, RecA>>) }

\* bodies sent by one request at a time
Payloads ==
  { NotAList, Batch(<<>>), Oversize, Batch(<<RecA>>), Batch(<<RecB>>),
    Batch(<<RecA, RecMissing>>), Batch(<<RecA, RecBadFk>>),
    Batch(<<RecA, RecZeroFk>>), Batch(<<RecBadJournal>>), Batch(<<RecA, RecRejected, RecB>>) }

\* Authorization headers: absent, the stored key as a bearer token, the raw
\* stored key, an unknown key, a revoked key
Headers == {"", "Bearer good", "good", "bad", "old"}
\* the headers of overlapping requests
RaceHeaders == {"", "Bearer good", "bad"}
RemoteAddr == "10.0.0.1"

\* api_key.replace('Bearer ', '').strip()
StripBearer(h) == IF h = "Bearer good" THEN "good" ELSE h

\* keys for which the credential store reports a user
StoredKeys == {"good"}

\* the journals of the company: the bank journal and a cash journal
Journals == {"7", "8"}
BankJournal == "7"

-----------------------------------------------------------------------------
(* Field mapping: request dict -> stored values *)

\* vals[k] = v, when the value is truthy ("if v: vals[k] = v")
SetIf(vals, k, v) == IF Falsy(v) THEN vals ELSE Merge(vals, [x \in {k} |-> v])

\* datetime.strptime(date_str, '%Y-%m-%d').date() when date_str is truthy
SyncDate(date_str) ==
  IF Falsy(date_str) THEN None ELSE format_date(Strptime(date_str, DateFormats[4]))

\* CustomerController._dict_to_partner_vals
DictToPartnerVals(data) ==
  DropNone(SetIf([name |-> Get(data, "name"), mobile_uid |-> Get(data, "mobile_uid"),
                  city |-> Get(data, "city"), vat |-> Get(data, "tax_id"),
                  email |-> Get(data, "email"), phone |-> Get(data, "phone"),
                  website |-> Get(data, "website"), is_company |-> "true",
                  customer_rank |-> "1"],
                 "mobile_sync_date", SyncDate(Get(data, "date"))))

\* SalesController.__dict_to_sale_order_vals
DictToSaleOrderVals(data) ==
  DropNone(SetIf([mobile_uid |-> Get(data, "mobile_uid"), partner_id |-> Get(data, "partner_id")],
                 "date_order", format_datetime(parse_datetime(Get(data, "date_order")))))

\* the journal of a payment: the one provided, or the company's bank journal
JournalFor(journal_id) ==
  IF ~Falsy(journal_id) THEN journal_id
  ELSE IF BankJournal \in Journals THEN BankJournal ELSE None

\* PaymentController.__dict_to_payment_vals
DictToPaymentVals(data) ==
  DropNone(
    SetIf(
      SetIf(
        SetIf([mobile_uid |-> Get(data, "mobile_uid"), partner_id |-> Get(data, "partner_id"),
               amount |-> Get(data, "amount"), payment_type |-> "inbound",
               partner_type |-> "customer"],
              "journal_id", JournalFor(Get(data, "journal_id"))),
        "date", format_date(parse_datetime(Get(data, "date")))),
      "ref", Get(data, "memo")))

\* str(memo)[:MAX_MEMO_LENGTH]
TruncateMemo(s) ==
  IF Falsy(s) THEN s
  ELSE IF StrLen(s) > MAX_MEMO_LENGTH THEN "memo-of-5000-characters" ELSE s

\* the datetime parsed by the handler, or the one parsed here
VisitDatetime(data, parsed) ==
  IF parsed.ok THEN parsed ELSE parse_datetime(Get(data, "visit_datetime"))

\* VisitController.__dict_to_visit_vals
DictToVisitVals(data, parsed) ==
  DropNone(
    SetIf(
      SetIf([mobile_uid |-> Get(data, "mobile_uid"), partner_id |-> Get(data, "partner_id")],
            "visit_datetime", format_datetime(VisitDatetime(data, parsed))),
      "memo", TruncateMemo(Get(data, "memo"))))

DictToVals(ep, data) ==
  CASE ep = "customer" -> DictToPartnerVals(data)
    [] ep = "sales" -> DictToSaleOrderVals(data)
    [] ep = "payments" -> DictToPaymentVals(data)
    [] ep = "visits" -> DictToVisitVals(data, parse_datetime(Get(data, "visit_datetime")))

-----------------------------------------------------------------------------
(* Query arguments: int() and get_pagination_params of controllers/auth.py *)

\* str.strip() of the characters of a string
RECURSIVE LStrip(_)
LStrip(c) == IF Len(c) > 0 /\ c[1] = " " THEN LStrip(Tail(c)) ELSE c
RECURSIVE RStrip(_)
RStrip(c) == IF Len(c) > 0 /\ c[Len(c)] = " " THEN RStrip(SubSeq(c, 1, Len(c) - 1)) ELSE c

\* the value of a sequence of decimal digits
RECURSIVE Decimal(_)
Decimal(c) ==
  IF Len(c) = 0 THEN 0
  ELSE 10 * Decimal(SubSeq(c, 1, Len(c) - 1)) + DigitVal(c[Len(c)])

\* the digits after an optional sign
Unsigned(c) == IF Len(c) > 0 /\ c[1] \in {"+", "-"} THEN Tail(c) ELSE c

\* the integer of a stripped literal; ok = FALSE is ValueError
IntLiteral(c) ==
  IF Len(Unsigned(c)) > 0 /\ \A i \in 1..Len(Unsigned(c)) : Unsigned(c)[i] \in Digits
  THEN [ok |-> TRUE, value |-> IF c[1] = "-" THEN 0 - Decimal(Unsigned(c)) ELSE Decimal(Unsigned(c))]
  ELSE [ok |-> FALSE, value |-> 0]

\* int(s) of a string given by its characters
PyInt(c) == IntLiteral(RStrip(LStrip(c)))

DEFAULT_LIMIT == 100
MAX_LIMIT == 1000

Min(a, b) == IF a < b THEN a ELSE b
Max(a, b) == IF a > b THEN a ELSE b

\* min(max(int(args.get('limit', 100)), 1), 1000), 100 on ValueError
LimitParam(args) ==
  IF "limit" \notin DOMAIN args THEN Min(Max(DEFAULT_LIMIT, 1), MAX_LIMIT)
  ELSE IF PyInt(args["limit"].text).ok
  THEN Min(Max(PyInt(args["limit"].text).value, 1), MAX_LIMIT)
  ELSE DEFAULT_LIMIT

\* max(int(args.get('offset', 0)), 0), 0 on ValueError
OffsetParam(args) ==
  IF "offset" \notin DOMAIN args THEN 0
  ELSE IF PyInt(args["offset"].text).ok THEN Max(PyInt(args["offset"].text).value, 0)
  ELSE 0

\* a parsing with one try block around both parameters: an offset that
\* does not parse resets the limit
get_pagination_params_one_try(args) ==
  IF "offset" \in DOMAIN args /\ ~PyInt(args["offset"].text).ok
  THEN [limit |-> DEFAULT_LIMIT, offset |-> 0]
  ELSE [limit |-> LimitParam(args), offset |-> OffsetParam(args)]

\* get_pagination_params
get_pagination_params(args) == [limit |-> LimitParam(args), offset |-> OffsetParam(args)]

-----------------------------------------------------------------------------
(* Filters: the allow-lists of the list handlers, get_filter_params and
   build_domain of controllers/auth.py *)

\* an entry of an allow-list: 'param': (field, type)
Filter(field, type) == [field |-> field, type |-> type]

SALES_FILTERS ==
  [partner_id |-> Filter("partner_id", "int"), state |-> Filter("state", "str"),
   since |-> Filter("write_date", "datetime")]

PAYMENT_FILTERS ==
  [partner_id |-> Filter("partner_id", "int"), state |-> Filter("state", "str"),
   since |-> Filter("write_date", "datetime")]

VISIT_FILTERS ==
  [partner_id |-> Filter("partner_id", "int"), since |-> Filter("write_date", "datetime")]

DELIVERY_FILTERS ==
  [partner_id |-> Filter("partner_id", "int"), sale_id |-> Filter("sale_id", "int"),
   state |-> Filter("state", "str"), since |-> Filter("write_date", "datetime")]

PRODUCT_FILTERS ==
  [category_id |-> Filter("categ_id", "int"), type |-> Filter("type", "str"),
   active |-> Filter("active", "bool"), since |-> Filter("write_date", "datetime")]

\* the allow-list each handler passes to get_filter_params
AllowedFilters(ep) ==
  CASE ep = "sales" -> SALES_FILTERS
    [] ep = "payments" -> PAYMENT_FILTERS
    [] ep = "visits" -> VISIT_FILTERS
    [] ep = "deliveries" -> DELIVERY_FILTERS
    [] ep = "products" -> PRODUCT_FILTERS

\* value.lower() of the sample words
Lower(s) == CASE s = "TRUE" -> "true" [] s = "Yes" -> "yes" [] OTHER -> s

\* the body of the try block for one argument: ok = FALSE when int()
\* raises ValueError or parse_datetime gives no datetime, else the value
\* stored: the integer as an id, the string, the datetime, the boolean
Coerced(type, value) ==
  CASE type = "int" -> [ok |-> PyInt(value.text).ok, value |-> ToString(PyInt(value.text).value)]
    [] type = "str" -> [ok |-> TRUE, value |-> value]
    [] type \in {"date", "datetime"} -> [ok |-> parse_datetime(value).ok, value |-> parse_datetime(value)]
    [] type = "bool" ->
         [ok |-> TRUE, value |-> IF Lower(value) \in {"true", "1", "yes"} THEN "true" ELSE "false"]

\* the parameters of the allow-list that are given and stored
Accepted(allowed, args) ==
  {p \in DOMAIN allowed \cap DOMAIN args : Coerced(allowed[p].type, args[p]).ok}

\* the parameter that fills a field
ParamOf(allowed, args, field) == CHOOSE p \in Accepted(allowed, args) : allowed[p].field = field

\* a parsing with one try block around the loop: the first value that
\* does not convert ends it, and no filter is returned
get_filter_params_one_try(allowed, args) ==
  IF \E p \in DOMAIN allowed \cap DOMAIN args : ~Coerced(allowed[p].type, args[p]).ok
  THEN EmptyDict
  ELSE [field \in {allowed[p].field : p \in Accepted(allowed, args)} |->
          Coerced(allowed[ParamOf(allowed, args, field)].type, args[ParamOf(allowed, args, field)]).value]

\* get_filter_params: field -> value for each parameter of the allow-list
\* whose value converts; the others are skipped
get_filter_params(allowed, args) ==
  [field \in {allowed[p].field : p \in Accepted(allowed, args)} |->
     Coerced(allowed[ParamOf(allowed, args, field)].type, args[ParamOf(allowed, args, field)]).value]

-----------------------------------------------------------------------------
(* Validation helpers of controllers/auth.py *)

\* validate_required_fields: the list of missing fields
validate_required_fields(data, required) ==
  {f \in required : f \notin DOMAIN data \/ data[f] = None}

\* validate_foreign_key against the rows the transaction sees
validate_foreign_key(rows, record_id) ==
  IF Falsy(record_id) THEN TRUE
  ELSE \E row \in rows : ToString(row.id) = record_id

RequiredFields(ep) ==
  CASE ep = "sales" -> {"mobile_uid", "partner_id"}
    [] ep = "payments" -> {"mobile_uid", "partner_id", "amount"}
    [] ep = "visits" -> {"mobile_uid", "partner_id", "visit_datetime"}
    [] ep = "customer" -> {"name", "mobile_uid"}

-----------------------------------------------------------------------------
(* State *)

VARIABLES
  db,          \* committed rows of each table: entity -> set of [id, vals]
  nextId,      \* the id sequence of each table
  req,         \* one record per request slot: position, transaction, response
  rlStore,     \* _rate_limit_store: client id -> list of timestamps
  now,         \* time.time(), in clock ticks
  rlLast,      \* outcome of the latest check_rate_limit call
  rlAdmitted,  \* every timestamp ever admitted, per client id
  rlChecks,    \* number of rate-limit checks made
  rlTicks,     \* number of clock advances made
  route,       \* the endpoint the requests of this run are sent to
  keys,        \* android.api.key: the set of credential records
  keyLast,     \* the latest validate_key call: the key presented, the record found
  pickings,    \* stock.picking: id -> state, type and lines of the delivery
  hooks        \* android.api.webhook: the set of subscriptions

vars == <<db, nextId, req, rlStore, now, rlLast, rlAdmitted, rlChecks, rlTicks, route,
          keys, keyLast, pickings, hooks>>

Req == 1..NReq
Entities == {"customer", "sales", "payments", "visits"}

\* endpoints whose loop runs inside "with request.env.cr.savepoint()"
Savepointed == {"sales", "payments", "visits"}

Row(id, vals) == [id |-> id, vals |-> vals]
Uid(row) == Get(row.vals, "mobile_uid")
Ids(rows) == {row.id : row \in rows}

NoView == [e \in Entities |-> {}]

\* the partner the tests create in setUpClass
InitDb ==
  [e \in Entities |->
     IF e = "customer"
     THEN {Row(1, [name |-> "Test Customer", mobile_uid |-> UBad, customer_rank |-> "1"])}
     ELSE {}]

Idle ==
  [pc |-> "idle", ep |-> "none", header |-> "", payload |-> NotAList, idx |-> 0,
   view |-> NoView, dirty |-> {}, stale |-> {}, spOk |-> FALSE, aborted |-> FALSE,
   integrity |-> "none", invalid |-> FALSE, raised |-> FALSE, out |-> <<>>, errors |-> 0, status |-> 0, reason |-> "none",
   persisted |-> {}, seen |-> {}, after |-> {},
   method |-> "POST", params |-> EmptyDict,
   events |-> <<>>, sent |-> <<>>, hookStatus |-> EmptyDict, notifyFailed |-> FALSE,
   resp |-> EmptyDict,
   rl |-> [pc |-> "idle", key |-> "", time |-> 0, kept |-> <<>>, count |-> 0, allowed |-> FALSE]]

InFlight(q) == q.pc \in {"loop", "retry"}

\* a search on a field that never matches
search_wrong_field(rows, uid) == {}

\* Model.search([('mobile_uid', '=', uid)], limit=1): empty or one row
search(rows, uid) ==
  LET hits == {row \in rows : Uid(row) = uid} IN
  IF hits = {} THEN {} ELSE {CHOOSE row \in hits : \A o \in hits : row.id <= o.id}

-----------------------------------------------------------------------------
(* Rate limiter *)

\* clock ticks per second
TicksPerSecond == 2

\* a rate limit of one more request than configured
check_rate_limit_off_by_one(store, client_id, t) ==
  LET window_start == t - RATE_LIMIT_WINDOW * TicksPerSecond
      Keep(x) == x > window_start
      kept == IF client_id \in DOMAIN store THEN SelectSeq(store[client_id], Keep) ELSE <<>>
  IN IF Len(kept) > RATE_LIMIT_REQUESTS
     THEN [allowed |-> FALSE, store |-> Merge(store, [k \in {client_id} |-> kept]),
           retry_after |-> (RATE_LIMIT_WINDOW * TicksPerSecond - (t - kept[1])) \div TicksPerSecond]
     ELSE [allowed |-> TRUE, store |-> Merge(store, [k \in {client_id} |-> Append(kept, t)]),
           retry_after |-> 0]

\* a check that records the rejected request as well
check_rate_limit_records_all(store, client_id, t) ==
  LET window_start == t - RATE_LIMIT_WINDOW * TicksPerSecond
      Keep(x) == x > window_start
      kept == IF client_id \in DOMAIN store THEN SelectSeq(store[client_id], Keep) ELSE <<>>
      request_count == Len(kept)
  IN IF request_count >= RATE_LIMIT_REQUESTS
     THEN [allowed |-> FALSE, store |-> Merge(store, [k \in {client_id} |-> Append(kept, t)]),
           retry_after |-> (RATE_LIMIT_WINDOW * TicksPerSecond - (t - kept[1])) \div TicksPerSecond]
     ELSE [allowed |-> TRUE, store |-> Merge(store, [k \in {client_id} |-> Append(kept, t)]),
           retry_after |-> 0]

\* a check that records the admitted request at the head of the list
check_rate_limit_prepend(store, client_id, t) ==
  LET window_start == t - RATE_LIMIT_WINDOW * TicksPerSecond
      Keep(x) == x > window_start
      kept == IF client_id \in DOMAIN store THEN SelectSeq(store[client_id], Keep) ELSE <<>>
      request_count == Len(kept)
  IN IF request_count >= RATE_LIMIT_REQUESTS
     THEN [allowed |-> FALSE, store |-> Merge(store, [k \in {client_id} |-> kept]),
           retry_after |-> (RATE_LIMIT_WINDOW * TicksPerSecond - (t - kept[1])) \div TicksPerSecond]
     ELSE [allowed |-> TRUE, store |-> Merge(store, [k \in {client_id} |-> <<t>> \o kept]),
           retry_after |-> 0]

\* check_rate_limit for the client id at time t: the verdict, the store
\* after the call and retry_after = int(window - (t - oldest))
check_rate_limit(store, client_id, t) ==
  LET window_start == t - RATE_LIMIT_WINDOW * TicksPerSecond
      Keep(x) == x > window_start
      kept == IF client_id \in DOMAIN store THEN SelectSeq(store[client_id], Keep) ELSE <<>>
      request_count == Len(kept)
  IN IF request_count >= RATE_LIMIT_REQUESTS
     THEN [allowed |-> FALSE, store |-> Merge(store, [k \in {client_id} |-> kept]),
           retry_after |-> (RATE_LIMIT_WINDOW * TicksPerSecond - (t - kept[1])) \div TicksPerSecond]
     ELSE [allowed |-> TRUE, store |-> Merge(store, [k \in {client_id} |-> Append(kept, t)]),
           retry_after |-> 0]

\* api_key if api_key else remote_addr
ClientId(header) == IF header # "" THEN header ELSE RemoteAddr

\* the bookkeeping of one check
RateLimited(header, rl) ==
  /\ rlStore' = rl.store
  /\ rlLast' = [key |-> ClientId(header), allowed |-> rl.allowed, retry_after |-> rl.retry_after, at |-> now]
  /\ rlAdmitted' = IF rl.allowed
                   THEN Merge(rlAdmitted, [k \in {ClientId(header)} |->
                          Append(IF ClientId(header) \in DOMAIN rlAdmitted THEN rlAdmitted[ClientId(header)] ELSE <<>>, now)])
                   ELSE rlAdmitted
  /\ rlChecks' = rlChecks + 1

-----------------------------------------------------------------------------
(* Credential store of models/api_key.py *)

\* last_used of a credential that was never used
NoTime == -1

\* hashlib.sha256(key.encode()).hexdigest(): distinct keys, distinct digests
Digest(k) == "sha256:" \o k

\* a credential record; key_hash is computed from key and stored
KeyRecord(id, key, active) ==
  [id |-> id, key |-> key, key_hash |-> Digest(key), active |-> active, last_used |-> NoTime]

\* the credentials of the runs of the endpoints: one active, one revoked
KeyStore == {KeyRecord(1, "good", TRUE), KeyRecord(2, "old", FALSE)}

\* no validate_key call yet
NoKeyCheck == [key |-> "", found |-> 0, at |-> 0]

\* a validation that accepts a revoked credential
validate_key_any_active(store, api_key, t) ==
  LET hits == IF api_key = "" THEN {} ELSE {c \in store : c.key_hash = Digest(api_key)} IN
  IF hits = {} THEN [found |-> 0, store |-> store]
  ELSE LET c == CHOOSE x \in hits : \A o \in hits : x.id <= o.id IN
       [found |-> c.id, store |-> (store \ {c}) \cup {[c EXCEPT !.last_used = t]}]

\* AndroidApiKey.validate_key at time t: the id of the record found (0 for
\* False) and the store after the call
validate_key(store, api_key, t) ==
  LET hits == IF api_key = "" THEN {}
              ELSE {c \in store : c.key_hash = Digest(api_key) /\ c.active} IN
  IF hits = {} THEN [found |-> 0, store |-> store]
  ELSE LET c == CHOOSE x \in hits : \A o \in hits : x.id <= o.id IN
       [found |-> c.id, store |-> (store \ {c}) \cup {[c EXCEPT !.last_used = t]}]

\* the bookkeeping of one validate_key call
KeyChecked(api_key, vk) ==
  /\ keys' = vk.store
  /\ keyLast' = [key |-> api_key, found |-> vk.found, at |-> now]

-----------------------------------------------------------------------------
(* Per-record validation *)

\* the validation without the checks of the mobile_uid format and of the
\* length of the memo
ValidationError_no_format(ep, data, view) ==
  IF ep = "customer" THEN
    IF Falsy(Get(data, "name")) THEN "name"
    ELSE IF Falsy(Get(data, "mobile_uid")) THEN "mobile_uid"
    ELSE "ok"
  ELSE IF validate_required_fields(data, RequiredFields(ep)) # {} THEN "required"
  ELSE IF ep = "visits" /\ ~parse_datetime(Get(data, "visit_datetime")).ok THEN "visit_datetime"
  ELSE IF ~validate_foreign_key(view["customer"], Get(data, "partner_id")) THEN "partner_id"
  ELSE IF ep = "payments" /\ ~Falsy(Get(data, "journal_id"))
          /\ ~(Get(data, "journal_id") \in Journals) THEN "journal_id"
  ELSE "ok"

\* the checks a record passes before the upsert, in the order of the
\* handler; "ok" or the name of the first failing check
ValidationError(ep, data, view) ==
  IF ep = "customer" THEN
    IF Falsy(Get(data, "name")) THEN "name"
    ELSE IF Falsy(Get(data, "mobile_uid")) THEN "mobile_uid"
    ELSE "ok"
  ELSE IF validate_required_fields(data, RequiredFields(ep)) # {} THEN "required"
  ELSE IF ep = "visits" /\ ~UUID_REGEX(Get(data, "mobile_uid")) THEN "uuid"
  ELSE IF ep = "visits" /\ ~parse_datetime(Get(data, "visit_datetime")).ok THEN "visit_datetime"
  ELSE IF ep = "visits" /\ ~Falsy(Get(data, "memo")) /\ StrLen(Get(data, "memo")) > MAX_MEMO_LENGTH THEN "memo"
  ELSE IF ~validate_foreign_key(view["customer"], Get(data, "partner_id")) THEN "partner_id"
  ELSE IF ep = "payments" /\ ~Falsy(Get(data, "journal_id"))
          /\ ~(Get(data, "journal_id") \in Journals) THEN "journal_id"
  ELSE "ok"

-----------------------------------------------------------------------------
(* Transactions *)

\* res.partner carries a unique mobile_uid as the other synced tables do
PartnerUniqueMobileUid == TRUE

\* tables without the constraint
UniqueMobileUid_missing(ep) == FALSE

\* the table has a UNIQUE(mobile_uid) constraint (_sql_constraints)
UniqueMobileUid(ep) ==
  ep \in {"sales", "payments", "visits"} \/ (ep = "customer" /\ PartnerUniqueMobileUid)

\* the table has a NOT NULL partner_id column (required=True)
RequiredPartner(ep) == ep = "visits"

\* values the ORM refuses to write: an amount that is no number, a tax id
\* that fails the VAT check, a sale order without a customer
OrmRejects(ep, vals) ==
  \/ ep = "payments" /\ Get(vals, "amount") = "abc"
  \/ ep = "customer" /\ Get(vals, "vat") = "bad-vat"
  \/ ep = "sales" /\ Falsy(Get(vals, "partner_id"))

\* rows another transaction has written and not yet committed
Uncommitted(r2, ep) ==
  IF InFlight(req[r2]) /\ req[r2].ep = ep
  THEN {row \in req[r2].view[ep] : row.id \in req[r2].dirty}
  ELSE {}

\* the record a request is about to process
Current(q) == q.payload.items[q.idx]

\* the requests holding a lock that the next statement of r waits for: the
\* row lock of the row it updates, or the index entry of the uid it inserts
Blockers(r) ==
  LET q == req[r] IN
  IF q.pc = "loop" /\ q.idx <= Len(q.payload.items) /\ ~q.aborted
        /\ ValidationError(q.ep, Current(q), q.view) = "ok"
  THEN LET uid == Get(Current(q), "mobile_uid")
           found == search(q.view[q.ep], uid)
       IN IF found # {}
          THEN {r2 \in Req \ {r} : \E row \in Uncommitted(r2, q.ep) : \E f \in found : row.id = f.id}
          ELSE {r2 \in Req \ {r} : \E row \in Uncommitted(r2, q.ep) :
                   Uid(row) = uid /\ row.id \notin Ids(db[q.ep])}
  ELSE IF q.pc = "retry"
  THEN LET found == search(db[q.ep], Get(Current(q), "mobile_uid")) IN
       {r2 \in Req \ {r} : \E row \in Uncommitted(r2, q.ep) : \E f \in found : row.id = f.id}
  ELSE {}

\* requests that r waits for, directly or through others
RECURSIVE WaitsFor(_, _)
WaitsFor(rs, n) ==
  IF n = 0 THEN rs
  ELSE WaitsFor(rs \cup UNION {Blockers(r2) : r2 \in rs}, n - 1)

Deadlocked(r) == r \in WaitsFor(Blockers(r), NReq)

-----------------------------------------------------------------------------
(* Webhooks of models/webhook.py *)

\* an android.api.webhook record: active, the event flags that are set,
\* last_status
Hook(id, active, flags) ==
  [id |-> id, active |-> active, flags |-> flags, last_status |-> "none"]

\* event_field_map of notify
EventFieldMap ==
  [e \in {"customer.created", "customer.updated", "sale.created", "sale.updated",
          "delivery.created", "delivery.updated", "payment.created", "payment.updated"} |->
     CASE e = "customer.created" -> "on_customer_create"
       [] e = "customer.updated" -> "on_customer_update"
       [] e = "sale.created" -> "on_sale_create"
       [] e = "sale.updated" -> "on_sale_update"
       [] e = "delivery.created" -> "on_delivery_create"
       [] e = "delivery.updated" -> "on_delivery_update"
       [] e = "payment.created" -> "on_payment_create"
       [] e = "payment.updated" -> "on_payment_update"]

\* the event that create ("created") or write ("updated") of the model of
\* the endpoint passes to notify: res.partner, sale.order and
\* account.payment override create and write, res.partner.visit does not
EventOf(ep, op) ==
  IF ep = "customer" THEN "customer." \o op
  ELSE IF ep = "sales" THEN "sale." \o op
  ELSE IF ep = "payments" THEN "payment." \o op
  ELSE "none"

\* what one trigger call can meet: the POST succeeds, the POST raises a
\* RequestException, the write that records the outcome raises
Outcomes == {"ok", "http_error", "record_error"}

\* one outcome for each subscription
OutcomeMaps == [{h.id : h \in hooks} -> Outcomes]

\* notify: the ids of search([('active', '=', True), (field_name, '=', True)]),
\* nothing for an event that is not in the map
Targets(event) ==
  IF event \notin DOMAIN EventFieldMap THEN {}
  ELSE {h.id : h \in {x \in hooks : x.active /\ EventFieldMap[event] \in x.flags}}

\* the loop of notify ends at the first trigger that raises: the
\* subscriptions whose trigger is called
Reached(ids, oc) == {i \in ids : \A j \in ids : j < i => oc[j] # "record_error"}

\* a trigger raised: the exception leaves notify and the create or write
\* that called it
Interrupted(ids, oc) == \E i \in ids : oc[i] = "record_error"

\* the ids in the order of the search
RECURSIVE Ascending(_)
Ascending(ids) ==
  IF ids = {} THEN <<>>
  ELSE <<CHOOSE i \in ids : \A j \in ids : i <= j>>
         \o Ascending(ids \ {CHOOSE i \in ids : \A j \in ids : i <= j})

\* requests.post of each trigger called, in order
Posts(event, id, order, oc) ==
  [k \in 1..Len(order) |->
     [event |-> event, record_id |-> id, hook |-> order[k], outcome |-> oc[order[k]]]]

\* self.write of each trigger that recorded its outcome
Statuses(ids, oc) ==
  [i \in {j \in ids : oc[j] # "record_error"} |-> IF oc[i] = "ok" THEN "success" ELSE "failed"]

\* the request after notify(event, model, id, data) ran inside create or
\* write; no call for a model without the override
Notified(q, event, id, oc) ==
  IF event = "none" THEN q
  ELSE [q EXCEPT !.events = Append(@, [event |-> event, record_id |-> id]),
                 !.sent = @ \o Posts(event, id, Ascending(Reached(Targets(event), oc)), oc),
                 !.hookStatus = Merge(@, Statuses(Reached(Targets(event), oc), oc)),
                 !.notifyFailed = @ \/ Interrupted(Targets(event), oc)]

\* the subscriptions after the transaction of q is committed
Recorded(q) ==
  {IF h.id \in DOMAIN q.hookStatus THEN [h EXCEPT !.last_status = q.hookStatus[h.id]] ELSE h :
     h \in hooks}

\* the entry appended to the result list, with the operation the handler logs
OutEntry(op, row) == [op |-> op, id |-> row.id, vals |-> row.vals]

\* a write that stores the merged values as another record and drops the old
WriteRow_rekey(q, id, vals) ==
  LET old == CHOOSE row \in q.view[q.ep] : row.id = id
      new == Row(id + 10, Merge(old.vals, vals))
  IN [q EXCEPT !.view[q.ep] = (@ \ {old}) \cup {new},
               !.dirty = @ \cup {id + 10},
               !.out = Append(@, OutEntry("updated", new)),
               !.idx = @ + 1]

\* a write that keeps the stored value of every field the record already has
WriteRow_first_wins(q, id, vals) ==
  LET old == CHOOSE row \in q.view[q.ep] : row.id = id
      new == Row(id, Merge(vals, old.vals))
  IN [q EXCEPT !.view[q.ep] = (@ \ {old}) \cup {new},
               !.dirty = @ \cup {id},
               !.out = Append(@, OutEntry("updated", new)),
               !.idx = @ + 1]

\* record.write(vals) on the row with this id, in the transaction's view
WriteRow(q, id, vals) ==
  LET old == CHOOSE row \in q.view[q.ep] : row.id = id
      new == Row(id, Merge(old.vals, vals))
  IN [q EXCEPT !.view[q.ep] = (@ \ {old}) \cup {new},
               !.dirty = @ \cup {id},
               !.out = Append(@, OutEntry("updated", new)),
               !.idx = @ + 1]

\* Model.create(vals) with the next id of the sequence
CreateRow(q, id, vals) ==
  [q EXCEPT !.view[q.ep] = @ \cup {Row(id, vals)},
            !.dirty = @ \cup {id},
            !.out = Append(@, OutEntry("created", Row(id, vals))),
            !.idx = @ + 1]

\* "x or ''" and "x or None"
OrEmpty(v) == IF Falsy(v) THEN "" ELSE v
OrNone(v) == IF Falsy(v) THEN None ELSE v

\* _partner_to_dict, __sale_order_to_dict, __payment_to_dict,
\* __visit_to_dict, __picking_to_dict, __product_to_dict over the fields
\* of the rows
ToDict(ep, row) ==
  CASE ep = "customer" ->
         [id |-> row.id, mobile_uid |-> OrEmpty(Get(row.vals, "mobile_uid")),
          name |-> OrEmpty(Get(row.vals, "name")), city |-> OrNone(Get(row.vals, "city")),
          tax_id |-> OrNone(Get(row.vals, "vat")), email |-> OrNone(Get(row.vals, "email")),
          phone |-> OrNone(Get(row.vals, "phone")), website |-> OrNone(Get(row.vals, "website")),
          date |-> OrNone(Get(row.vals, "mobile_sync_date"))]
    [] ep = "sales" ->
         [id |-> row.id, mobile_uid |-> OrEmpty(Get(row.vals, "mobile_uid")),
          date_order |-> Get(row.vals, "date_order"), partner_id |-> OrNone(Get(row.vals, "partner_id"))]
    [] ep = "payments" ->
         [id |-> row.id, mobile_uid |-> OrEmpty(Get(row.vals, "mobile_uid")),
          partner_id |-> OrNone(Get(row.vals, "partner_id")), amount |-> Get(row.vals, "amount"),
          date |-> Get(row.vals, "date"), memo |-> OrEmpty(Get(row.vals, "ref")),
          journal_id |-> OrNone(Get(row.vals, "journal_id"))]
    [] ep = "visits" ->
         [id |-> row.id, mobile_uid |-> OrEmpty(Get(row.vals, "mobile_uid")),
          partner_id |-> OrNone(Get(row.vals, "partner_id")),
          visit_datetime |-> OrNone(Get(row.vals, "visit_datetime")),
          memo |-> OrEmpty(Get(row.vals, "memo"))]
    [] ep = "deliveries" ->
         [id |-> row.id, state |-> row.vals.state, lines |-> row.vals.lines]
    [] ep = "products" ->
         [id |-> row.id, name |-> OrEmpty(Get(row.vals, "name"))]

\* the body of a successful batch POST: create_customers returns the list
\* of the records, the other handlers {"count": len(created), "data": created}
PostResponse(q) ==
  IF q.ep = "customer"
  THEN [data |-> [k \in 1..Len(q.out) |-> ToDict(q.ep, q.out[k])]]
  ELSE [count |-> Len(q.out), data |-> [k \in 1..Len(q.out) |-> ToDict(q.ep, q.out[k])]]

\* The end of the handler: the savepoint block is left (normally, by a
\* return, or by an exception), the response is built and the request's
\* transaction is committed.  An exception rolls back to the savepoint and
\* gives 500; a savepoint destroyed by cr.rollback() cannot be released,
\* which gives 500 from a failed transaction; a return releases the
\* savepoint and what was written is committed.
Leave(q, status, reason, raised) ==
  LET lost == q.aborted \/ (q.ep \in Savepointed /\ (~q.spOk \/ raised))
      st == IF q.ep \in Savepointed /\ (~q.spOk \/ raised) THEN 500 ELSE status
      rows == IF lost THEN {} ELSE {row \in q.view[q.ep] : row.id \in q.dirty}
  IN [q EXCEPT !.pc = "done", !.status = st, !.reason = reason, !.persisted = rows,
               !.view = NoView, !.dirty = {}, !.stale = {},
               !.hookStatus = IF lost THEN EmptyDict ELSE @,
               !.resp = IF st = 200 THEN PostResponse(q) ELSE EmptyDict]

\* the request r ends as q: its rows are committed, and the open
\* transactions on the table now hold an older snapshot of those rows
Finish(r, q) ==
  /\ db' = [db EXCEPT ![q.ep] = {row \in @ : row.id \notin Ids(q.persisted)} \cup q.persisted]
  /\ req' = [r2 \in Req |->
               IF r2 = r THEN q
               ELSE IF InFlight(req[r2]) /\ req[r2].ep = q.ep
               THEN [req[r2] EXCEPT !.stale = @ \cup Ids(q.persisted)]
               ELSE req[r2]]
  /\ hooks' = Recorded(q)

\* the request r continues as q
Continue(r, q) ==
  /\ req' = [req EXCEPT ![r] = q]
  /\ db' = db
  /\ hooks' = hooks

\* the transaction fails: its changes and locks are gone
Abort(q) == [q EXCEPT !.aborted = TRUE, !.raised = TRUE, !.dirty = {}, !.errors = @ + 1, !.idx = @ + 1]

-----------------------------------------------------------------------------
(* The handlers *)

Started(r, ep, header, payload) ==
  [Idle EXCEPT !.pc = "loop", !.ep = ep, !.header = header, !.payload = payload, !.idx = 1,
               !.view = db, !.spOk = (ep \in Savepointed), !.seen = {Uid(row) : row \in db[ep]},
               !.after = {r2 \in Req : req[r2].pc = "done"}]

Rejected(r, ep, header, status, reason) ==
  [Idle EXCEPT !.pc = "done", !.ep = ep, !.header = header, !.status = status, !.reason = reason,
               !.after = {r2 \in Req : req[r2].pc = "done"}]

\* an authentication that takes any header that is present
Authenticated_any_header(header) == header # ""

\* api_authenticate
Authenticated(header) == header # "" /\ StripBearer(header) \in StoredKeys

\* create_sales, create_payments, create_visits up to the savepoint block:
\* rate limit, authentication, shape and size of the body
BeginSavepointed(r, ep, header, payload) ==
  LET rl == check_rate_limit(rlStore, ClientId(header), now) IN
  /\ ep \in Savepointed
  /\ RateLimited(header, rl)
  /\ req' = [req EXCEPT ![r] =
       IF ~rl.allowed THEN Rejected(r, ep, header, 429, "rate")
       ELSE IF ~Authenticated(header) THEN Rejected(r, ep, header, 401, "auth")
       ELSE IF ~payload.list THEN [Rejected(r, ep, header, 400, "notlist") EXCEPT !.payload = payload]
       ELSE IF Len(payload.items) = 0 THEN [Rejected(r, ep, header, 400, "empty") EXCEPT !.payload = payload]
       ELSE IF Len(payload.items) > MAX_BATCH THEN [Rejected(r, ep, header, 400, "size") EXCEPT !.payload = payload]
       ELSE Started(r, ep, header, payload)]
  /\ UNCHANGED <<db, nextId, now, rlTicks, route, keys, keyLast, pickings, hooks>>

\* CustomerController._validate_api_key: the record found (0 for None) and
\* the credential store after the call; validate_key is not called for a
\* missing header
ValidateApiKey(header) ==
  IF header = "" THEN [found |-> 0, store |-> keys]
  ELSE validate_key(keys, StripBearer(header), now)

\* create_customers up to the loop: authentication and the shape of the body
BeginCustomer(r, header, payload) ==
  /\ IF header = "" THEN UNCHANGED <<keys, keyLast>>
     ELSE KeyChecked(StripBearer(header), ValidateApiKey(header))
  /\ req' = [req EXCEPT ![r] =
       IF ValidateApiKey(header).found = 0 THEN Rejected(r, "customer", header, 401, "auth")
       ELSE IF ~payload.list THEN [Rejected(r, "customer", header, 400, "notlist") EXCEPT !.payload = payload]
       ELSE Started(r, "customer", header, payload)]
  /\ UNCHANGED <<db, nextId, rlStore, now, rlLast, rlAdmitted, rlChecks, rlTicks, route, pickings, hooks>>

Begin(r, headers, payloads) ==
  /\ req[r].pc = "idle"
  /\ \E header \in headers, payload \in payloads :
       IF route = "customer" THEN BeginCustomer(r, header, payload)
       ELSE BeginSavepointed(r, route, header, payload)

\* the INSERT violates the unique index (the uid is stored by a committed
\* transaction) or the NOT NULL partner_id
InsertError(ep, uid, vals) ==
  IF UniqueMobileUid(ep) /\ \E row \in db[ep] : Uid(row) = uid THEN "unique"
  ELSE IF RequiredPartner(ep) /\ Falsy(Get(vals, "partner_id")) THEN "notnull"
  ELSE "none"

\* the request q leaves the savepoint block by an exception
Raise(r, q, reason) ==
  Finish(r, Leave([q EXCEPT !.raised = TRUE], 500, reason, TRUE)) /\ nextId' = nextId

\* create and write notify only for a record that has a mobile_uid
RecordEvent(ep, op, uid) == IF Falsy(uid) THEN "none" ELSE EventOf(ep, op)

\* the record with this id was written as q and the override of create or
\* write calls notify before it returns; an exception of notify leaves the
\* savepoint block
SavepointedNotify(r, q, event, id, oc) ==
  IF Interrupted(Targets(event), oc)
  THEN Finish(r, Leave([Notified(q, event, id, oc) EXCEPT !.raised = TRUE], 500, "webhook", TRUE))
  ELSE Continue(r, Notified(q, event, id, oc))

\* existing.write(vals) / Model.create(vals) of create_sales,
\* create_payments and create_visits; found is the result of the search,
\* fault says that the ORM refuses the values, kind is the error of the
\* INSERT, oc the outcome of each trigger
SavepointedUpsert(r, q, vals, found, fault, kind, oc) ==
  IF found # {} THEN
    IF (CHOOSE row \in found : TRUE).id \in q.stale \/ fault
    THEN Raise(r, q, "write")
    ELSE SavepointedNotify(r, WriteRow(q, (CHOOSE row \in found : TRUE).id, Pop(vals, "mobile_uid")),
                           RecordEvent(q.ep, "updated", Uid(CHOOSE row \in found : TRUE)),
                           (CHOOSE row \in found : TRUE).id, oc)
         /\ nextId' = nextId
  ELSE IF fault THEN Raise(r, q, "create")
  ELSE IF kind # "none" THEN
    \* the INSERT raises IntegrityError
    /\ nextId' = [nextId EXCEPT ![q.ep] = @ + 1]
    /\ IF q.ep = "visits"
       THEN \* except IntegrityError: request.env.cr.rollback()
            Continue(r, [q EXCEPT !.pc = "retry", !.view = NoView, !.dirty = {}, !.stale = {},
                                  !.spOk = FALSE, !.integrity = kind])
       ELSE Finish(r, Leave([q EXCEPT !.raised = TRUE, !.integrity = kind], 500, "integrity", TRUE))
  ELSE
    /\ nextId' = [nextId EXCEPT ![q.ep] = @ + 1]
    /\ SavepointedNotify(r, CreateRow(q, nextId[q.ep], vals),
                         RecordEvent(q.ep, "created", Get(vals, "mobile_uid")), nextId[q.ep], oc)

\* the record has passed (verr = "ok") or failed the validation
SavepointedRecord(r, q, uid, verr, vals, oc) ==
  IF verr # "ok" THEN
    \* return json_error(...) inside the with block
    Finish(r, Leave([q EXCEPT !.invalid = TRUE], 400, verr, FALSE)) /\ nextId' = nextId
  ELSE SavepointedUpsert(r, q, vals, search(q.view[q.ep], uid), OrmRejects(q.ep, vals),
                         InsertError(q.ep, uid, vals), oc)

\* one iteration of the loop of create_sales / create_payments /
\* create_visits
SavepointedStep(r, oc) ==
  SavepointedRecord(r, req[r], Get(Current(req[r]), "mobile_uid"),
                    ValidationError(req[r].ep, Current(req[r]), req[r].view),
                    DictToVals(req[r].ep, Current(req[r])), oc)

\* the record is skipped: errors.append(...); continue
Skip(q) == [q EXCEPT !.errors = @ + 1, !.idx = @ + 1]

\* an exception of the record is caught: errors.append(...)
Caught(q) == [Skip(q) EXCEPT !.raised = TRUE]

\* the exception of notify is caught by the handler after the record was
\* written: the record stays in the transaction and is not in the results
Unreported(q) ==
  [q EXCEPT !.out = SubSeq(@, 1, Len(@) - 1), !.errors = @ + 1, !.raised = TRUE]

\* the customer with this id was written as q and the override of create
\* or write calls notify before it returns
CustomerNotify(r, q, event, id, oc) ==
  IF Interrupted(Targets(event), oc)
  THEN Continue(r, Unreported(Notified(q, event, id, oc)))
  ELSE Continue(r, Notified(q, event, id, oc))

\* existing.write(vals) / Partner.create(vals) of create_customers
CustomerUpsert(r, q, vals, found, fault, kind, oc) ==
  IF q.aborted THEN
    \* every statement of a failed transaction raises
    Continue(r, Caught(q)) /\ nextId' = nextId
  ELSE IF found # {} THEN
    IF (CHOOSE row \in found : TRUE).id \in q.stale THEN Continue(r, Abort(q)) /\ nextId' = nextId
    ELSE IF fault THEN Continue(r, Caught(q)) /\ nextId' = nextId
    ELSE CustomerNotify(r, WriteRow(q, (CHOOSE row \in found : TRUE).id, Pop(vals, "mobile_uid")),
                        RecordEvent("customer", "updated", Uid(CHOOSE row \in found : TRUE)),
                        (CHOOSE row \in found : TRUE).id, oc)
         /\ nextId' = nextId
  ELSE IF fault THEN
    Continue(r, Caught(q)) /\ nextId' = nextId
  ELSE IF kind = "unique" THEN
    Continue(r, [Abort(q) EXCEPT !.integrity = "unique"]) /\ nextId' = [nextId EXCEPT !["customer"] = @ + 1]
  ELSE
    /\ nextId' = [nextId EXCEPT !["customer"] = @ + 1]
    /\ CustomerNotify(r, CreateRow(q, nextId["customer"], vals),
                      RecordEvent("customer", "created", Get(vals, "mobile_uid")),
                      nextId["customer"], oc)

CustomerRecord(r, q, uid, verr, vals, oc) ==
  IF verr # "ok" THEN Continue(r, [Skip(q) EXCEPT !.invalid = TRUE]) /\ nextId' = nextId
  ELSE CustomerUpsert(r, q, vals, search(q.view["customer"], uid), OrmRejects("customer", vals),
                      InsertError("customer", uid, vals), oc)

\* one iteration of the loop of create_customers: every failure is caught,
\* recorded and the loop continues
CustomerStep(r, oc) ==
  CustomerRecord(r, req[r], Get(Current(req[r]), "mobile_uid"),
                 ValidationError("customer", Current(req[r]), req[r].view),
                 DictToVals("customer", Current(req[r])), oc)

\* the next record of the batch is processed
Step(r) ==
  /\ req[r].pc = "loop"
  /\ req[r].idx <= Len(req[r].payload.items)
  /\ Blockers(r) = {}
  /\ \E oc \in OutcomeMaps :
       IF req[r].ep = "customer" THEN CustomerStep(r, oc) ELSE SavepointedStep(r, oc)
  /\ UNCHANGED <<rlStore, now, rlLast, rlAdmitted, rlChecks, rlTicks, route, keys, keyLast, pickings>>

\* a retry that skips the record when the new search finds nothing
RetryWrite_skip(r, q, vals, found, oc) ==
  IF found # {} /\ ~OrmRejects(q.ep, vals)
  THEN SavepointedNotify(r, WriteRow(q, (CHOOSE row \in found : TRUE).id, Pop(vals, "mobile_uid")),
                         RecordEvent(q.ep, "updated", Uid(CHOOSE row \in found : TRUE)),
                         (CHOOSE row \in found : TRUE).id, oc)
  ELSE Continue(r, Skip(q))

\* the update after the rollback, on the row the new search found
RetryWrite(r, q, vals, found, oc) ==
  IF found # {} /\ ~OrmRejects(q.ep, vals)
  THEN SavepointedNotify(r, WriteRow(q, (CHOOSE row \in found : TRUE).id, Pop(vals, "mobile_uid")),
                         RecordEvent(q.ep, "updated", Uid(CHOOSE row \in found : TRUE)),
                         (CHOOSE row \in found : TRUE).id, oc)
  ELSE Finish(r, Leave([q EXCEPT !.raised = TRUE], 500, "retry", TRUE))

\* create_visits after cr.rollback(): search again in a new transaction
\* and write to the row found, or re-raise
Retry(r) ==
  /\ req[r].pc = "retry"
  /\ Blockers(r) = {}
  /\ \E oc \in OutcomeMaps :
       RetryWrite(r, [req[r] EXCEPT !.pc = "loop", !.view = db],
                  DictToVals(req[r].ep, Current(req[r])),
                  search(db[req[r].ep], Get(Current(req[r]), "mobile_uid")), oc)
  /\ UNCHANGED <<nextId, rlStore, now, rlLast, rlAdmitted, rlChecks, rlTicks, route, keys, keyLast, pickings>>

\* the loop is over: the response is the list of results
EndLoop(r) ==
  /\ req[r].pc = "loop"
  /\ req[r].idx > Len(req[r].payload.items)
  /\ Finish(r, Leave(req[r], 200, "ok", FALSE))
  /\ UNCHANGED <<nextId, rlStore, now, rlLast, rlAdmitted, rlChecks, rlTicks, route, keys, keyLast, pickings>>

\* the database breaks a cycle of lock waits: the statement of r fails
DeadlockAbort(r) ==
  /\ InFlight(req[r])
  /\ Deadlocked(r)
  /\ IF req[r].ep = "customer"
     THEN Continue(r, Abort(req[r]))
     ELSE Finish(r, Leave([req[r] EXCEPT !.raised = TRUE], 500, "deadlock", TRUE))
  /\ UNCHANGED <<nextId, rlStore, now, rlLast, rlAdmitted, rlChecks, rlTicks, route, keys, keyLast, pickings>>

-----------------------------------------------------------------------------
(* Deliveries: POST /deliveries of controllers/delivery_controller.py *)

\* a stock.move of a picking: product_uom_qty and quantity
Line(qty, done) == [qty |-> qty, done |-> done]

\* a stock.picking: state, picking_type_code and move_ids_without_package
Picking(state, code, lines) == [state |-> state, code |-> code, lines |-> lines]

\* the transfers of the database: a delivery ready to ship, a delivery
\* done that shipped less than was ordered, a delivery cancelled, a
\* receipt, a delivery without lines
InitPickings ==
  [i \in 1..5 |->
     CASE i = 1 -> Picking("assigned", "outgoing", <<Line(2, 0), Line(1, 1)>>)
       [] i = 2 -> Picking("done", "outgoing", <<Line(2, 1)>>)
       [] i = 3 -> Picking("cancel", "outgoing", <<Line(3, 0)>>)
       [] i = 4 -> Picking("confirmed", "incoming", <<Line(1, 0)>>)
       [] i = 5 -> Picking("draft", "outgoing", <<>>)]

\* request bodies: no id, the ids of the transfers, ids of no transfer
DeliveryBodies ==
  {EmptyDict} \cup {[id |-> i] : i \in {"0", "1", "2", "3", "4", "5", "9"}}

\* browse(delivery_id) restricted to the records that exist
Browse(delivery_id) == {i \in DOMAIN pickings : ToString(i) = delivery_id}

\* lines that keep the quantities they have
KeepQuantities(lines) == lines

\* for move in picking.move_ids_without_package:
\*     move.quantity = move.product_uom_qty
SetQuantities(lines) == [k \in 1..Len(lines) |-> [lines[k] EXCEPT !.done = lines[k].qty]]

\* picking.button_validate(): a transfer without lines is refused
CanValidate(picking) == Len(picking.lines) > 0

\* the answer of a request to POST /deliveries
Answered(r, header, body, status, reason) ==
  [Rejected(r, "deliveries", header, status, reason) EXCEPT !.params = body]

\* checks that let a finished delivery through
DeliveryError_no_state_check(body) ==
  IF Falsy(Get(body, "id")) THEN "missing"
  ELSE IF Browse(Get(body, "id")) = {} THEN "notfound"
  ELSE "none"

\* the checks of update_delivery_status on the body and the picking: the
\* first that fails, or "none"
DeliveryError(body) ==
  IF Falsy(Get(body, "id")) THEN "missing"
  ELSE IF Browse(Get(body, "id")) = {} THEN "notfound"
  ELSE IF \E i \in Browse(Get(body, "id")) : pickings[i].state = "done" THEN "done"
  ELSE IF \E i \in Browse(Get(body, "id")) : pickings[i].state = "cancel" THEN "cancel"
  ELSE "none"

\* the status the handler gives with each error
DeliveryStatus(reason) == IF reason = "notfound" THEN 404 ELSE 400

\* the pickings after the quantities of the picking were written and,
\* when validated, the picking was marked done
Transitioned(delivery_id, validated) ==
  [i \in DOMAIN pickings |->
     IF i \in Browse(delivery_id)
     THEN [pickings[i] EXCEPT !.state = IF validated THEN "done" ELSE @,
                              !.lines = SetQuantities(@)]
     ELSE pickings[i]]

\* update_delivery_status after the rate limit: hasJson says whether the
\* framework provides request.jsonrequest (its absence is an AttributeError
\* caught by the handler), validates whether button_validate succeeds
DeliveryOutcome(r, header, body, hasJson, validates) ==
  IF ~Authenticated(header) THEN
    /\ req' = [req EXCEPT ![r] = Answered(r, header, body, 401, "auth")]
    /\ pickings' = pickings
  ELSE IF ~hasJson THEN
    /\ req' = [req EXCEPT ![r] = [Answered(r, header, body, 500, "jsonrequest") EXCEPT !.raised = TRUE]]
    /\ pickings' = pickings
  ELSE IF DeliveryError(body) # "none" THEN
    /\ req' = [req EXCEPT ![r] =
                 Answered(r, header, body, DeliveryStatus(DeliveryError(body)), DeliveryError(body))]
    /\ pickings' = pickings
  ELSE IF validates /\ \A i \in Browse(Get(body, "id")) : CanValidate(pickings[i]) THEN
    /\ req' = [req EXCEPT ![r] = Answered(r, header, body, 200, "ok")]
    /\ pickings' = Transitioned(Get(body, "id"), TRUE)
  ELSE
    \* button_validate raises after the quantities were written; the
    \* handler answers 500 and the request's transaction is committed
    /\ req' = [req EXCEPT ![r] = [Answered(r, header, body, 500, "validate") EXCEPT !.raised = TRUE]]
    /\ pickings' = Transitioned(Get(body, "id"), FALSE)

\* DeliveryController.update_delivery_status
UpdateDeliveryStatus(r, header, body, hasJson, validates) ==
  /\ RateLimited(header, check_rate_limit(rlStore, ClientId(header), now))
  /\ IF ~check_rate_limit(rlStore, ClientId(header), now).allowed
     THEN /\ req' = [req EXCEPT ![r] = Answered(r, header, body, 429, "rate")]
          /\ pickings' = pickings
     ELSE DeliveryOutcome(r, header, body, hasJson, validates)
  /\ UNCHANGED <<db, nextId, now, rlTicks, route, keys, keyLast, hooks>>

\* a request to POST /deliveries
Deliver(r) ==
  /\ route = "deliveries"
  /\ req[r].pc = "idle"
  /\ \E header \in Headers, body \in DeliveryBodies, hasJson \in BOOLEAN, validates \in BOOLEAN :
       UpdateDeliveryStatus(r, header, body, hasJson, validates)

-----------------------------------------------------------------------------
(* The list endpoints: GET of each controller *)

\* product.product: the API reads the products and never writes them
Products ==
  { Row(1, [name |-> "Widget", sale_ok |-> "true", active |-> "true", categ_id |-> "1",
            type |-> "consu", write_date |-> DT0]),
    Row(2, [name |-> "Gadget", sale_ok |-> "true", active |-> "true", categ_id |-> "2",
            type |-> "service", write_date |-> DT1]),
    Row(3, [name |-> "Internal", sale_ok |-> "false", active |-> "true", categ_id |-> "1",
            type |-> "consu", write_date |-> DT3]),
    Row(4, [name |-> "Retired", sale_ok |-> "true", active |-> "false", categ_id |-> "1",
            type |-> "consu", write_date |-> DT3]) }

\* partner_id, sale_id and write_date of the transfers of the database
PickingHeader ==
  [i \in 1..5 |->
     CASE i = 1 -> [partner_id |-> "1", sale_id |-> "1", write_date |-> DT0]
       [] i = 2 -> [partner_id |-> "1", sale_id |-> "2", write_date |-> DT1]
       [] i = 3 -> [partner_id |-> "2", sale_id |-> "2", write_date |-> DT3]
       [] i = 4 -> [partner_id |-> "1", write_date |-> DT3]
       [] i = 5 -> [partner_id |-> "2", write_date |-> DT1]]

\* the deliveries as rows
PickingRows == {Row(i, pickings[i] @@ PickingHeader[i]) : i \in DOMAIN pickings}

\* the base domain of the search of each list endpoint
ListRows(ep) ==
  CASE ep = "customer" ->
         {row \in db["customer"] : Get(row.vals, "customer_rank") \notin {None, "0"}
                                     /\ Get(row.vals, "active") # "false"}
    [] ep = "sales" -> db["sales"]
    [] ep = "payments" ->
         {row \in db["payments"] : Get(row.vals, "payment_type") = "inbound"
                                     /\ Get(row.vals, "partner_type") = "customer"}
    [] ep = "visits" -> db["visits"]
    [] ep = "deliveries" -> {row \in PickingRows : row.vals.code = "outgoing"}
    [] ep = "products" -> {row \in Products : Get(row.vals, "sale_ok") = "true"}

\* the implicit ('active', '=', True) of a search on product.product whose
\* domain does not name the field
ActiveTest(ep, rows, filters) ==
  IF ep = "products" /\ "active" \notin DOMAIN filters
  THEN {row \in rows : Get(row.vals, "active") # "false"}
  ELSE rows

\* the fields of a datetime, most significant first
DateFields(dt) == <<dt.Y, dt.m, dt.d, dt.H, dt.M, dt.S>>

\* the order of two datetimes from field i on: 1 when a is later, -1 when
\* b is later, 0 when equal
RECURSIVE CompareFrom(_, _, _)
CompareFrom(a, b, i) ==
  IF i > Len(a) THEN 0
  ELSE IF a[i] > b[i] THEN 1
  ELSE IF a[i] < b[i] THEN -1
  ELSE CompareFrom(a, b, i + 1)

\* domain.append(('write_date', '>=', filters.pop('write_date'))) on the
\* rows: a row without write_date satisfies no comparison
Since(rows, filters) ==
  IF "write_date" \in DOMAIN filters
  THEN {row \in rows :
          /\ parse_datetime(Get(row.vals, "write_date")).ok
          /\ CompareFrom(DateFields(parse_datetime(Get(row.vals, "write_date"))),
                         DateFields(filters["write_date"]), 1) >= 0}
  ELSE rows

\* build_domain: (field, '=', value) for each filter, on the rows
build_domain(rows, filters) ==
  {row \in rows : \A field \in DOMAIN filters : Get(row.vals, field) = filters[field]}

\* the domain of a list handler: its base domain, the since filter with
\* >=, the other filters through build_domain
Search(ep, filters) ==
  build_domain(Since(ActiveTest(ep, ListRows(ep), filters), filters), Pop(filters, "write_date"))

\* the visit_datetime of a row
VisitTime(row) == DateFields(parse_datetime(Get(row.vals, "visit_datetime")))

\* order='visit_datetime desc' for the visits, order='id' for the others
Before(ep, a, b) ==
  IF ep = "visits" /\ CompareFrom(VisitTime(a), VisitTime(b), 1) # 0
  THEN CompareFrom(VisitTime(a), VisitTime(b), 1) = 1
  ELSE a.id <= b.id

\* the rows in the order of the search
RECURSIVE Ordered(_, _)
Ordered(ep, rows) ==
  IF rows = {} THEN <<>>
  ELSE <<CHOOSE a \in rows : \A b \in rows : Before(ep, a, b)>>
         \o Ordered(ep, rows \ {CHOOSE a \in rows : \A b \in rows : Before(ep, a, b)})

\* search(domain, limit=limit, offset=offset) on the ordered rows
Page(rows, limit, offset) == SubSeq(rows, offset + 1, Min(offset + limit, Len(rows)))

\* the records as dictionaries
Dicts(ep, rows) == [k \in 1..Len(rows) |-> ToDict(ep, rows[k])]

\* paginated_response of the rows found with the pagination parameters
paginated_response(ep, rows, page) ==
  [total |-> Cardinality(rows), limit |-> page.limit, offset |-> page.offset,
   count |-> Len(Page(Ordered(ep, rows), page.limit, page.offset)),
   data |-> Dicts(ep, Page(Ordered(ep, rows), page.limit, page.offset))]

\* the answer of a GET request
Listed(r, ep, header, query, status, reason) ==
  [Rejected(r, ep, header, status, reason) EXCEPT !.method = "GET", !.params = query]

\* CustomerController.get_customers: the credential is validated, then all
\* customers are read and returned as an array; no rate-limit check and no
\* use of the query string
GetCustomers(r, header, query) ==
  /\ IF header = "" THEN UNCHANGED <<keys, keyLast>>
     ELSE KeyChecked(StripBearer(header), ValidateApiKey(header))
  /\ req' = [req EXCEPT ![r] =
       IF ValidateApiKey(header).found = 0 THEN Listed(r, "customer", header, query, 401, "auth")
       ELSE [Listed(r, "customer", header, query, 200, "ok") EXCEPT
               !.resp = [data |-> Dicts("customer", Ordered("customer", ListRows("customer")))]]]
  /\ UNCHANGED <<rlStore, rlLast, rlAdmitted, rlChecks>>

\* get_sales, get_payments, get_visits, get_deliveries, get_products: rate
\* limit, authentication, then a page of the records that pass the
\* filters is read
GetList(r, ep, header, query) ==
  /\ RateLimited(header, check_rate_limit(rlStore, ClientId(header), now))
  /\ req' = [req EXCEPT ![r] =
       IF ~check_rate_limit(rlStore, ClientId(header), now).allowed
       THEN Listed(r, ep, header, query, 429, "rate")
       ELSE IF ~Authenticated(header) THEN Listed(r, ep, header, query, 401, "auth")
       ELSE [Listed(r, ep, header, query, 200, "ok") EXCEPT
               !.resp = paginated_response(ep, Search(ep, get_filter_params(AllowedFilters(ep), query)),
                                            get_pagination_params(query))]]
  /\ UNCHANGED <<keys, keyLast>>

\* a GET request to the route
Fetch(r, headers, queries) ==
  /\ req[r].pc = "idle"
  /\ \E header \in headers, query \in queries :
       IF route = "customer" THEN GetCustomers(r, header, query)
       ELSE GetList(r, route, header, query)
  /\ UNCHANGED <<db, nextId, now, rlTicks, route, pickings, hooks>>

-----------------------------------------------------------------------------
(* Specification of the batch endpoints *)

Init ==
  /\ db = InitDb
  /\ nextId = [e \in Entities |-> IF e = "customer" THEN 2 ELSE 1]
  /\ req = [r \in Req |-> Idle]
  /\ rlStore = EmptyDict
  /\ now = 0
  /\ rlLast = [key |-> "", allowed |-> TRUE, retry_after |-> 0, at |-> 0]
  /\ rlAdmitted = EmptyDict
  /\ rlChecks = 0
  /\ rlTicks = 0
  /\ route \in Entities
  /\ keys = KeyStore
  /\ keyLast = NoKeyCheck
  /\ pickings = InitPickings
  /\ hooks = {}

\* requests that overlap in time
Next ==
  \E r \in Req :
    \/ Begin(r, RaceHeaders, RacePayloads)
    \/ Step(r)
    \/ Retry(r)
    \/ EndLoop(r)
    \/ DeadlockAbort(r)

Spec == Init /\ [][Next]_vars

\* the routes of the module: the batch endpoints, the deliveries and the
\* products
Routes == Entities \cup {"deliveries", "products"}

\* no request is in progress and the requests before r are over
Quiet(r) ==
  /\ \A r2 \in Req : ~InFlight(req[r2])
  /\ \A r2 \in Req : r2 < r => req[r2].pc = "done"

\* one request at a time
BeginAlone(r) == Quiet(r) /\ Begin(r, Headers, Payloads)

DeliverAlone(r) == Quiet(r) /\ Deliver(r)

\* a GET request without a query string
FetchAlone(r) == Quiet(r) /\ Fetch(r, Headers, {EmptyDict})

InitSeq ==
  /\ db = InitDb
  /\ nextId = [e \in Entities |-> IF e = "customer" THEN 2 ELSE 1]
  /\ req = [r \in Req |-> Idle]
  /\ rlStore = EmptyDict
  /\ now = 0
  /\ rlLast = [key |-> "", allowed |-> TRUE, retry_after |-> 0, at |-> 0]
  /\ rlAdmitted = EmptyDict
  /\ rlChecks = 0
  /\ rlTicks = 0
  /\ route \in Routes
  /\ keys = KeyStore
  /\ keyLast = NoKeyCheck
  /\ pickings = InitPickings
  /\ hooks = {}

NextSeq ==
  \E r \in Req :
    \/ BeginAlone(r)
    \/ DeliverAlone(r)
    \/ FetchAlone(r)
    \/ Step(r)
    \/ Retry(r)
    \/ EndLoop(r)

SpecSeq == InitSeq /\ [][NextSeq]_vars

-----------------------------------------------------------------------------
(* Specification of the batch endpoints with webhook subscriptions *)

\* the flags of a subscription with its defaults
AllFlags ==
  {"on_customer_create", "on_customer_update", "on_sale_create", "on_sale_update",
   "on_delivery_create", "on_delivery_update", "on_payment_create", "on_payment_update"}

\* the flags of a subscription to the creations only
CreateFlags ==
  {"on_customer_create", "on_sale_create", "on_delivery_create", "on_payment_create"}

\* subscriptions: one; two with every flag; one with every flag, one
\* archived, one for creations
HookConfigs ==
  { {Hook(1, TRUE, AllFlags)},
    {Hook(1, TRUE, AllFlags), Hook(2, TRUE, AllFlags)},
    {Hook(1, TRUE, AllFlags), Hook(2, FALSE, AllFlags), Hook(3, TRUE, CreateFlags)} }

\* bodies: one record, a record and its update, two records, a record
\* followed by one that fails validation, that has no partner
HookPayloads ==
  { Batch(<<RecA>>), Batch(<<RecA, RecB>>), Batch(<<RecA, RecC>>),
    Batch(<<RecA, RecMissing>>), Batch(<<RecA, RecZeroFk>>) }

HookHeaders == {"Bearer good"}

InitHook ==
  /\ db = InitDb
  /\ nextId = [e \in Entities |-> IF e = "customer" THEN 2 ELSE 1]
  /\ req = [r \in Req |-> Idle]
  /\ rlStore = EmptyDict
  /\ now = 0
  /\ rlLast = [key |-> "", allowed |-> TRUE, retry_after |-> 0, at |-> 0]
  /\ rlAdmitted = EmptyDict
  /\ rlChecks = 0
  /\ rlTicks = 0
  /\ route \in Entities
  /\ keys = KeyStore
  /\ keyLast = NoKeyCheck
  /\ pickings = InitPickings
  /\ hooks \in HookConfigs

BeginHooked(r) == Quiet(r) /\ Begin(r, HookHeaders, HookPayloads)

NextHook ==
  \E r \in Req :
    \/ BeginHooked(r)
    \/ Step(r)
    \/ Retry(r)
    \/ EndLoop(r)

SpecHook == InitHook /\ [][NextHook]_vars

-----------------------------------------------------------------------------
(* Specification of the list endpoints *)

\* a query argument: its characters, and whether it is the decimal
\* literal of an integer and of which
Arg(text, numeric, value) == [text |-> text, numeric |-> numeric, value |-> value]

\* values of limit: 1, 2, 0, -1, 1001, abc, 2.5
LimitArgs ==
  { Arg(<<"1">>, TRUE, 1), Arg(<<"2">>, TRUE, 2), Arg(<<"0">>, TRUE, 0),
    Arg(<<"-", "1">>, TRUE, -1), Arg(<<"1", "0", "0", "1">>, TRUE, 1001),
    Arg(<<"a", "b", "c">>, FALSE, 0), Arg(<<"2", ".", "5">>, FALSE, 0) }

\* values of offset: 1, 3, -2, x, the empty string
OffsetArgs ==
  { Arg(<<"1">>, TRUE, 1), Arg(<<"3">>, TRUE, 3), Arg(<<"-", "2">>, TRUE, -2),
    Arg(<<"x">>, FALSE, 0), Arg(<<>>, FALSE, 0) }

\* query strings: each of limit and offset absent or given
Queries ==
  {EmptyDict}
    \cup {[k \in {"limit"} |-> l] : l \in LimitArgs}
    \cup {[k \in {"offset"} |-> o] : o \in OffsetArgs}
    \cup {[limit |-> l, offset |-> o] : l \in LimitArgs, o \in OffsetArgs}

\* a database with records of every entity: three customers and a
\* supplier, two sale orders, two payments, three visits
ListDb ==
  [e \in Entities |->
     CASE e = "customer" ->
            { Row(1, [name |-> "Test Customer", mobile_uid |-> UBad, customer_rank |-> "1", write_date |-> DT0]),
              Row(2, [name |-> "A", mobile_uid |-> U1, customer_rank |-> "1", is_company |-> "true",
                      write_date |-> DT1]),
              Row(3, [name |-> "C", mobile_uid |-> U2, customer_rank |-> "1", is_company |-> "true", city |-> "X",
                      write_date |-> DT3]),
              Row(4, [name |-> "Supplier", customer_rank |-> "0", write_date |-> DT3]) }
       [] e = "sales" ->
            { Row(1, [mobile_uid |-> U1, partner_id |-> "1", state |-> "draft", write_date |-> DT0]),
              Row(2, [mobile_uid |-> U2, partner_id |-> "2", date_order |-> DT1, state |-> "sale",
                      write_date |-> DT1]) }
       [] e = "payments" ->
            { Row(1, [mobile_uid |-> U1, partner_id |-> "1", amount |-> "100", payment_type |-> "inbound",
                      partner_type |-> "customer", journal_id |-> BankJournal, state |-> "draft",
                      write_date |-> DT1]),
              Row(2, [mobile_uid |-> U2, partner_id |-> "1", amount |-> "200", payment_type |-> "inbound",
                      partner_type |-> "customer", journal_id |-> BankJournal, ref |-> "m", state |-> "draft",
                      write_date |-> DT3]),
              Row(3, [partner_id |-> "4", amount |-> "50", payment_type |-> "outbound",
                      partner_type |-> "supplier", journal_id |-> BankJournal, state |-> "draft",
                      write_date |-> DT3]) }
       [] e = "visits" ->
            { Row(1, [mobile_uid |-> U1, partner_id |-> "1", visit_datetime |-> DT0, write_date |-> DT3]),
              Row(2, [mobile_uid |-> U2, partner_id |-> "1", visit_datetime |-> DT1, write_date |-> DT1]),
              Row(3, [mobile_uid |-> "33333333-3333-4333-9333-333333333333", partner_id |-> "2",
                      visit_datetime |-> DT1, memo |-> "m", write_date |-> DT0]) }]

ListHeaders == {"Bearer good", "bad"}

InitList ==
  /\ db = ListDb
  /\ nextId = [e \in Entities |-> Cardinality(ListDb[e]) + 1]
  /\ req = [r \in Req |-> Idle]
  /\ rlStore = EmptyDict
  /\ now = 0
  /\ rlLast = [key |-> "", allowed |-> TRUE, retry_after |-> 0, at |-> 0]
  /\ rlAdmitted = EmptyDict
  /\ rlChecks = 0
  /\ rlTicks = 0
  /\ route \in Routes
  /\ keys = KeyStore
  /\ keyLast = NoKeyCheck
  /\ pickings = InitPickings
  /\ hooks = {}

\* a GET request with a query string
FetchPage(r) ==
  /\ Cardinality({r2 \in Req : req[r2].pc = "done"}) < MaxPages
  /\ Quiet(r)
  /\ Fetch(r, ListHeaders, Queries)

NextList == \E r \in Req : FetchPage(r)

SpecList == InitList /\ [][NextList]_vars

-----------------------------------------------------------------------------
(* Specification of the filters of the list endpoints *)

\* a query string with at most one value for each parameter
Given(param, values) == {EmptyDict} \cup {[k \in {param} |-> v] : v \in values}

\* values of since: a datetime, a day in another notation
SinceArgs == {DT1, DBad}

\* 1 with a sign, 2 between spaces, abc
One == Arg(<<"+", "1">>, TRUE, 1)
Two == Arg(<<" ", "2", " ">>, TRUE, 2)
Abc == Arg(<<"a", "b", "c">>, FALSE, 0)

\* query strings of the sales, payments, visits and deliveries: since and
\* partner_id, each absent or given, alone, with a state or with a
\* parameter of no allow-list
CommonQueries ==
  {a @@ b @@ c : a \in Given("since", SinceArgs), b \in Given("partner_id", {One, Abc}),
                 c \in Given("state", {"draft"}) \cup Given("order", {"name"})}

\* query strings with the parameters of the deliveries and the products,
\* with a date and an empty string as since, with a limit
OtherQueries ==
  {a @@ b : a \in Given("sale_id", {Two, Abc}), b \in Given("since", {DBad})}
    \cup {a @@ b : a \in Given("category_id", {Two, Abc}), b \in Given("active", {"false", "maybe"})}
    \cup {[active |-> "TRUE"], [type |-> "consu", since |-> DBad], [since |-> D1], [since |-> ""],
          [limit |-> Arg(<<"1">>, TRUE, 1), since |-> DT1], [limit |-> Arg(<<"x">>, FALSE, 0), since |-> DBad]}

FilterQueries == CommonQueries \cup OtherQueries

\* a GET request with the stored key and filters in its query string
FetchFiltered(r) ==
  /\ Cardinality({r2 \in Req : req[r2].pc = "done"}) < MaxPages
  /\ Quiet(r)
  /\ Fetch(r, {"Bearer good"}, FilterQueries)

NextFilter == \E r \in Req : FetchFiltered(r)

SpecFilter == InitList /\ [][NextFilter]_vars

-----------------------------------------------------------------------------
(* Specification of the batch writes, one request at a time, with records
   that are rejected, records that fail in the database and records that
   update a stored one *)

WritePayloads ==
  { Batch(<<RecA>>), Batch(<<RecB>>), Batch(<<RecFull>>), Batch(<<RecA, RecBadUid>>),
    Batch(<<RecA, RecLongMemo>>), Batch(<<RecA, RecZeroFk>>), Batch(<<RecA, RecB>>) }

InitWrite ==
  /\ db = InitDb
  /\ nextId = [e \in Entities |-> IF e = "customer" THEN 2 ELSE 1]
  /\ req = [r \in Req |-> Idle]
  /\ rlStore = EmptyDict
  /\ now = 0
  /\ rlLast = [key |-> "", allowed |-> TRUE, retry_after |-> 0, at |-> 0]
  /\ rlAdmitted = EmptyDict
  /\ rlChecks = 0
  /\ rlTicks = 0
  /\ route \in Entities
  /\ keys = KeyStore
  /\ keyLast = NoKeyCheck
  /\ pickings = InitPickings
  /\ hooks = {}

\* one batch write at a time
BeginWrite(r) == Quiet(r) /\ Begin(r, ListHeaders, WritePayloads)

NextWrite ==
  \E r \in Req :
    \/ BeginWrite(r)
    \/ Step(r)
    \/ Retry(r)
    \/ EndLoop(r)

SpecWrite == InitWrite /\ [][NextWrite]_vars

-----------------------------------------------------------------------------
(* Specification of the rate limiter alone: checks and a clock *)

\* clock advances, in ticks: half a second, just under the window, the window
TickSteps == {1, RATE_LIMIT_WINDOW * TicksPerSecond - 1, RATE_LIMIT_WINDOW * TicksPerSecond}

\* the two header forms of the stored key
RLHeaders == {"Bearer good", "good"}

\* the table after 98 requests of one client in the same instant
WarmStore == [k \in {"Bearer good"} |-> [i \in 1..(RATE_LIMIT_REQUESTS - 2) |-> 0]]

InitRL ==
  /\ db = InitDb
  /\ nextId = [e \in Entities |-> IF e = "customer" THEN 2 ELSE 1]
  /\ req = [r \in Req |-> Idle]
  /\ rlStore \in {EmptyDict, WarmStore}
  /\ now = 0
  /\ rlLast = [key |-> "", allowed |-> TRUE, retry_after |-> 0, at |-> 0]
  /\ rlAdmitted = rlStore
  /\ rlChecks = 0
  /\ rlTicks = 0
  /\ route = "sales"
  /\ keys = KeyStore
  /\ keyLast = NoKeyCheck
  /\ pickings = InitPickings
  /\ hooks = {}

\* one call of check_rate_limit by a request with this header
RLCheck(header) ==
  /\ rlChecks < MaxChecks
  /\ RateLimited(header, check_rate_limit(rlStore, ClientId(header), now))
  /\ UNCHANGED <<db, nextId, req, now, rlTicks, route, keys, keyLast, pickings, hooks>>

\* time passes
RLTick(d) ==
  /\ rlTicks < MaxTicks
  /\ now' = now + d
  /\ rlTicks' = rlTicks + 1
  /\ UNCHANGED <<db, nextId, req, rlStore, rlLast, rlAdmitted, rlChecks, route, keys, keyLast, pickings, hooks>>

\* the rejected client waits the retry_after seconds it was told
RLWait ==
  /\ rlChecks > 0 /\ ~rlLast.allowed /\ rlLast.at = now
  /\ RLTick(rlLast.retry_after * TicksPerSecond)

NextRL ==
  \/ \E header \in RLHeaders : RLCheck(header)
  \/ \E d \in TickSteps : RLTick(d)
  \/ RLWait

SpecRL == InitRL /\ [][NextRL]_vars

-----------------------------------------------------------------------------
(* Specification of concurrent calls of check_rate_limit: the statements of
   the function are the steps of a request, and the requests share the
   table _rate_limit_store, which no lock protects *)

\* the table after 99 requests of one client in the same instant
NearlyFull == [k \in {"Bearer good"} |-> [i \in 1..(RATE_LIMIT_REQUESTS - 1) |-> 0]]

InitRace ==
  /\ db = InitDb
  /\ nextId = [e \in Entities |-> IF e = "customer" THEN 2 ELSE 1]
  /\ req = [r \in Req |-> Idle]
  /\ rlStore \in {EmptyDict, NearlyFull}
  /\ now = 0
  /\ rlLast = [key |-> "", allowed |-> TRUE, retry_after |-> 0, at |-> 0]
  /\ rlAdmitted = rlStore
  /\ rlChecks = 0
  /\ rlTicks = 0
  /\ route = "sales"
  /\ keys = KeyStore
  /\ keyLast = NoKeyCheck
  /\ pickings = InitPickings
  /\ hooks = {}

\* the step of request r from one statement to the next
RaceStep(r, from, rl, store, admitted) ==
  /\ req[r].rl.pc = from
  /\ req' = [req EXCEPT ![r].rl = rl]
  /\ rlStore' = store
  /\ rlAdmitted' = admitted
  /\ UNCHANGED <<db, nextId, now, rlLast, rlChecks, rlTicks, route, keys, keyLast, pickings, hooks>>

\* client_id = api_key if api_key else remote_addr; current_time = time.time()
RaceBegin(r) ==
  \E header \in RLHeaders :
    RaceStep(r, "idle", [req[r].rl EXCEPT !.pc = "filter", !.key = ClientId(header), !.time = now],
             rlStore, rlAdmitted)

\* the timestamps of the list that are newer than the window start of r
NewerThan(list, t) ==
  LET Keep(x) == x > t - RATE_LIMIT_WINDOW * TicksPerSecond
  IN SelectSeq(list, Keep)

\* [t for t in _rate_limit_store[client_id] if t > window_start], or []
RaceFilter(r) ==
  RaceStep(r, "filter",
           [req[r].rl EXCEPT !.pc = "assign",
                             !.kept = IF req[r].rl.key \in DOMAIN rlStore
                                      THEN NewerThan(rlStore[req[r].rl.key], req[r].rl.time)
                                      ELSE <<>>],
           rlStore, rlAdmitted)

\* _rate_limit_store[client_id] = <the filtered list>
RaceAssign(r) ==
  RaceStep(r, "assign", [req[r].rl EXCEPT !.pc = "count"],
           Merge(rlStore, [k \in {req[r].rl.key} |-> req[r].rl.kept]), rlAdmitted)

\* request_count = len(_rate_limit_store[client_id]); the request is
\* rejected when request_count >= RATE_LIMIT_REQUESTS
RaceCount(r) ==
  RaceStep(r, "count",
           [req[r].rl EXCEPT !.count = Len(rlStore[req[r].rl.key]),
                             !.pc = IF Len(rlStore[req[r].rl.key]) >= RATE_LIMIT_REQUESTS
                                    THEN "done" ELSE "append"],
           rlStore, rlAdmitted)

\* _rate_limit_store[client_id].append(current_time); return True, None
RaceAppend(r) ==
  RaceStep(r, "append", [req[r].rl EXCEPT !.pc = "done", !.allowed = TRUE],
           [rlStore EXCEPT ![req[r].rl.key] = Append(@, req[r].rl.time)],
           Merge(rlAdmitted, [k \in {req[r].rl.key} |->
                   Append(IF req[r].rl.key \in DOMAIN rlAdmitted THEN rlAdmitted[req[r].rl.key] ELSE <<>>,
                          req[r].rl.time)]))

NextRace ==
  \/ \E r \in Req :
       \/ RaceBegin(r)
       \/ RaceFilter(r)
       \/ RaceAssign(r)
       \/ RaceCount(r)
       \/ RaceAppend(r)
  \/ \E d \in TickSteps : RLTick(d)

SpecRace == InitRace /\ [][NextRace]_vars

-----------------------------------------------------------------------------
(* Specification of the credential store alone: validations and a clock *)

\* credential stores: empty, one active key, the key revoked, the key
\* stored twice, an active and a revoked key
KeyStores ==
  { {},
    {KeyRecord(1, "good", TRUE)},
    {KeyRecord(1, "good", FALSE)},
    {KeyRecord(1, "good", TRUE), KeyRecord(2, "good", TRUE)},
    {KeyRecord(1, "good", FALSE), KeyRecord(2, "good", TRUE)},
    KeyStore }

\* the keys presented: empty, active, revoked, unknown
PresentedKeys == {"", "good", "old", "bad"}

InitKey ==
  /\ db = InitDb
  /\ nextId = [e \in Entities |-> IF e = "customer" THEN 2 ELSE 1]
  /\ req = [r \in Req |-> Idle]
  /\ rlStore = EmptyDict
  /\ now = 0
  /\ rlLast = [key |-> "", allowed |-> TRUE, retry_after |-> 0, at |-> 0]
  /\ rlAdmitted = EmptyDict
  /\ rlChecks = 0
  /\ rlTicks = 0
  /\ route = "customer"
  /\ keys \in KeyStores
  /\ keyLast = NoKeyCheck
  /\ pickings = InitPickings
  /\ hooks = {}

\* one call of validate_key
KeyCheck(api_key) ==
  /\ KeyChecked(api_key, validate_key(keys, api_key, now))
  /\ UNCHANGED <<db, nextId, req, rlStore, now, rlLast, rlAdmitted, rlChecks, rlTicks, route, pickings, hooks>>

NextKey ==
  \/ \E api_key \in PresentedKeys : KeyCheck(api_key)
  \/ \E d \in TickSteps : RLTick(d)

SpecKey == InitKey /\ [][NextKey]_vars

-----------------------------------------------------------------------------
(* Properties *)

Done(r) == req[r].pc = "done"

\* the request r was a batch POST and is answered
Posted(r) == req[r].pc = "done" /\ req[r].ep \in Entities /\ req[r].method = "POST"
Window == RATE_LIMIT_WINDOW * TicksPerSecond

\* C10: for every client id, at most 100 admitted requests have their
\* timestamps inside the 60-second window that ends at an admitted request
\* (checked as each request is admitted), and right after a check
\* the client's stored list has at most 100 entries, all newer than now - 60.
C10_Window ==
  /\ \A k \in DOMAIN rlAdmitted :
       LET a == rlAdmitted[k] IN
       Len(a) > 0 =>
         Cardinality({j \in 1..Len(a) : a[j] > a[Len(a)] - Window}) <= RATE_LIMIT_REQUESTS
  /\ (rlChecks > 0 /\ rlLast.at = now) =>
       /\ Len(rlStore[rlLast.key]) <= RATE_LIMIT_REQUESTS
       /\ \A i \in 1..Len(rlStore[rlLast.key]) : rlStore[rlLast.key][i] > now - Window

\* a check finds the client at its limit
C10_Witness ==
  /\ rlChecks > 0 /\ rlLast.at = now /\ ~rlLast.allowed
  /\ Len(rlStore[rlLast.key]) = RATE_LIMIT_REQUESTS
  /\ now > 0

\* C11: a check that finds 100 admitted requests of the key inside the
\* last 60 seconds is rejected with a retry_after that is strictly greater
\* than 0 and is the whole number of seconds of
\* window - (now - oldest remaining timestamp).
C11_RetryAfter ==
  (rlChecks > 0 /\ rlLast.at = now /\ ~rlLast.allowed) =>
    /\ Len(rlStore[rlLast.key]) >= RATE_LIMIT_REQUESTS
    /\ rlLast.retry_after > 0
    /\ rlLast.retry_after * TicksPerSecond <= Window - (now - rlStore[rlLast.key][1])
    /\ Window - (now - rlStore[rlLast.key][1]) < (rlLast.retry_after + 1) * TicksPerSecond

-----------------------------------------------------------------------------
(* Properties of the batch endpoints *)

Items(r) == req[r].payload.items
Submits(r, uid) == \E i \in 1..Len(Items(r)) : Get(Items(r)[i], "mobile_uid") = uid
OutFor(r, uid) == {k \in 1..Len(req[r].out) : Get(req[r].out[k].vals, "mobile_uid") = uid}
Stored(uid) == {row \in db[route] : Uid(row) = uid}

\* b ran after a had finished
Sequential(a, b) == a \in req[b].after

\* a and b were in progress at the same time
Overlapped(a, b) ==
  /\ a # b /\ req[a].pc # "idle" /\ req[b].pc # "idle"
  /\ ~Sequential(a, b) /\ ~Sequential(b, a)

\* no other request was in progress while b ran
Alone(b) == \A c \in Req \ {b} : req[c].pc = "idle" \/ Sequential(c, b) \/ Sequential(b, c)

\* C1: when a request stored a record and a later request (started after
\* the first had finished) submits the same mobile_uid, exactly one record
\* with that mobile_uid is stored, it has the id the first request gave it,
\* the later request never creates a record for it, and a later request
\* that ran alone answered 200 with an update of that record.
C1_Idempotent ==
  \A a \in Req, b \in Req :
    (Done(b) /\ Sequential(a, b)) =>
      \A row \in req[a].persisted :
        Submits(b, Uid(row)) =>
          /\ Cardinality(Stored(Uid(row))) = 1
          /\ \A x \in Stored(Uid(row)) : x.id = row.id
          /\ \A k \in OutFor(b, Uid(row)) :
               req[b].out[k].op = "updated" /\ req[b].out[k].id = row.id
          /\ Alone(b) => (req[b].status = 200 /\ OutFor(b, Uid(row)) # {})

\* a second request updated the record an earlier request had created
C1_Witness ==
  \E a \in Req, b \in Req :
    /\ Done(a) /\ Done(b) /\ Sequential(a, b) /\ req[b].status = 200
    /\ \E row \in req[a].persisted :
         /\ \E k \in 1..Len(req[a].out) : req[a].out[k].op = "created" /\ req[a].out[k].id = row.id
         /\ \E k \in OutFor(b, Uid(row)) : req[b].out[k].op = "updated" /\ req[b].out[k].id = row.id
         /\ \E x \in req[b].persisted : x.id = row.id /\ x # row

\* C2: when two overlapping POST /visits requests submit the same new
\* mobile_uid, once both have answered exactly one visit with that
\* mobile_uid is stored and both answers are 200.
C2_BothSucceed ==
  \A a \in Req, b \in Req :
    (route = "visits" /\ Overlapped(a, b) /\ Done(a) /\ Done(b)) =>
      \A uid \in {U1, U2} :
        (Submits(a, uid) /\ Submits(b, uid) /\ uid \notin req[a].seen /\ uid \notin req[b].seen) =>
          /\ Cardinality(Stored(uid)) = 1
          /\ req[a].status = 200 /\ req[b].status = 200

\* C3: no two stored records of one entity type share a mobile_uid.
C3_UniqueMobileUid ==
  \A e \in Entities : \A x \in db[e], y \in db[e] : Uid(x) = Uid(y) => x = y

\* a request lost the race for a mobile_uid that another request stored
C3_Witness ==
  \E a \in Req, b \in Req :
    /\ Overlapped(a, b) /\ Done(a) /\ Done(b)
    /\ req[b].integrity = "unique"
    /\ \E row \in req[a].persisted : Submits(b, Uid(row)) /\ row \in db[route]

\* C4: a request whose create hit the uniqueness conflict of a lost race
\* answers 200 with the record updated; the conflict is never an error.
C4_ConflictRecovered ==
  \A r \in Req :
    (Done(r) /\ req[r].integrity = "unique") =>
      (req[r].status = 200 /\ req[r].errors = 0 /\ Len(req[r].out) = Len(Items(r)))

\* C5: a request in which a record failed validation answers with an
\* error and commits nothing.
C5_FailFastNoCommit ==
  \A r \in Req :
    (Posted(r) /\ req[r].invalid) => (req[r].status = 400 /\ req[r].persisted = {})

\* C6: a request in which a create or update raised (other than a
\* recovered uniqueness conflict) answers with an error and commits nothing.
C6_FailureRollsBack ==
  \A r \in Req :
    (Posted(r) /\ req[r].raised) => (req[r].status >= 400 /\ req[r].persisted = {})

\* C7: an authenticated request whose body is not an array, is empty or has
\* more than 100 records answers 400 and commits nothing; a body of 1..100
\* records is not rejected for its shape.
C7_BodyShape ==
  \A r \in Req :
    (Posted(r) /\ req[r].status \notin {401, 429}) =>
      IF ~req[r].payload.list \/ Len(Items(r)) = 0 \/ Len(Items(r)) > MAX_BATCH
      THEN req[r].status = 400 /\ req[r].persisted = {}
      ELSE req[r].reason \notin {"notlist", "empty", "size"}

\* C8: an authenticated batch with a record that lacks a required field
\* (absent or null) answers 400, unless an earlier failure answered 500,
\* and no record of that mobile_uid is written by the request.
C8_RequiredFields ==
  \A r \in Req :
    (Posted(r) /\ req[r].status \notin {401, 429, 500} /\ req[r].payload.list) =>
      \A i \in 1..Len(Items(r)) :
        validate_required_fields(Items(r)[i], RequiredFields(route)) # {} =>
          /\ req[r].status = 400
          /\ \A row \in req[r].persisted : Uid(row) # Get(Items(r)[i], "mobile_uid")

\* a partner_id or journal_id that is given and refers to no record
DanglingField(data) ==
  IF route # "customer" /\ Get(data, "partner_id") # None
       /\ ~(\E row \in db["customer"] : ToString(row.id) = Get(data, "partner_id"))
  THEN "partner_id"
  ELSE IF route = "payments" /\ Get(data, "journal_id") # None
       /\ Get(data, "journal_id") \notin Journals
  THEN "journal_id"
  ELSE "none"

\* C9: a sales, payment or visit record whose partner_id (or a payment's
\* journal_id) refers to no existing record is answered 400 naming that
\* field, and no record of that mobile_uid is written by the request.
C9_ForeignKeys ==
  \A r \in Req :
    (Posted(r) /\ req[r].status \notin {401, 429} /\ req[r].payload.list /\ Len(Items(r)) <= MAX_BATCH) =>
      \A i \in 1..Len(Items(r)) :
        (/\ DanglingField(Items(r)[i]) # "none"
         /\ validate_required_fields(Items(r)[i], RequiredFields(route)) = {}
         /\ \A j \in 1..(i - 1) : Get(Items(r)[j], "mobile_uid") # Get(Items(r)[i], "mobile_uid")) =>
          /\ req[r].status = 400
          /\ req[r].reason = DanglingField(Items(r)[i])
          /\ \A row \in req[r].persisted : Uid(row) # Get(Items(r)[i], "mobile_uid")

\* C12: a request is taken up by an endpoint only together with a
\* rate-limit check for its client id, and a request the check rejects is
\* answered 429 at once, without a read or write of synced records.
C12_RateLimitFirst ==
  [][\A r \in Req :
       (req[r].pc = "idle" /\ req'[r].pc # "idle") =>
         /\ rlChecks' = rlChecks + 1
         /\ rlLast'.key = ClientId(req'[r].header)
         /\ ~rlLast'.allowed => (req'[r].pc = "done" /\ req'[r].status = 429 /\ db' = db)]_vars

\* the credentials a presented key may validate against: active records
\* with the digest of the key
Matching(store, api_key) ==
  {c \in store : c.active /\ c.key_hash = Digest(api_key)}

\* C14: a validate_key call finds a record only for a non-empty key, and
\* the record is active and has the digest of the key; then the last-used
\* time of that record, and nothing else, is set to the time of the call;
\* a call that finds no record changes no credential record.
C14_ValidateKey ==
  [][keyLast' # keyLast =>
       IF keyLast'.found # 0
       THEN /\ keyLast'.key # ""
            /\ \E c \in Matching(keys, keyLast'.key) :
                 /\ c.id = keyLast'.found
                 /\ keys' = (keys \ {c}) \cup {[c EXCEPT !.last_used = now]}
       ELSE keys' = keys]_<<keys, keyLast>>

\* a stored active key has been validated after the clock advanced, while
\* a revoked record of the store was left as it was
C14_Witness ==
  /\ keyLast.found # 0 /\ keyLast.at > 0
  /\ \E c \in keys : c.id = keyLast.found /\ c.active /\ c.last_used = keyLast.at
  /\ \E c \in keys : ~c.active /\ c.last_used = NoTime

\* a request to POST /deliveries is answered in this step
Delivered(r) ==
  req[r].pc = "idle" /\ req'[r].pc = "done" /\ req'[r].ep = "deliveries" /\ req'[r].method = "POST"

\* C15: a delivery transition whose id is missing, refers to no delivery, or
\* refers to a delivery already done or cancelled is rejected and leaves
\* the state and the quantities of every delivery unchanged.
C15_TransitionRejected ==
  [][\A r \in Req :
       (/\ Delivered(r)
        /\ \/ Get(req'[r].params, "id") = None
           \/ Browse(Get(req'[r].params, "id")) = {}
           \/ \E i \in Browse(Get(req'[r].params, "id")) : pickings[i].state \in {"done", "cancel"}) =>
         /\ req'[r].status \in {400, 401, 404, 429, 500}
         /\ pickings' = pickings]_vars

\* an authenticated request for a finished delivery and one for a delivery
\* that does not exist were both rejected
C15_Witness ==
  \E a \in Req, b \in Req :
    /\ Done(a) /\ req[a].ep = "deliveries" /\ req[a].reason = "done" /\ req[a].status = 400
    /\ Done(b) /\ req[b].ep = "deliveries" /\ req[b].reason = "notfound" /\ req[b].status = 404

\* C16: a delivery transition answered with success, on a delivery neither
\* done nor cancelled, leaves every line of that delivery with its
\* fulfilled quantity equal to its ordered quantity, the delivery in state
\* done, and every other delivery as it was.
C16_TransitionDone ==
  [][\A r \in Req :
       (Delivered(r) /\ req'[r].status = 200) =>
         \E i \in Browse(Get(req'[r].params, "id")) :
           /\ pickings[i].state \notin {"done", "cancel"}
           /\ pickings'[i].state = "done"
           /\ Len(pickings'[i].lines) = Len(pickings[i].lines)
           /\ \A k \in 1..Len(pickings[i].lines) :
                /\ pickings'[i].lines[k].qty = pickings[i].lines[k].qty
                /\ pickings'[i].lines[k].done = pickings[i].lines[k].qty
           /\ \A j \in DOMAIN pickings : j # i => pickings'[j] = pickings[j]]_vars

\* the delivery with open quantities was marked done by a request
C16_Witness ==
  /\ pickings[1].state = "done"
  /\ \A k \in 1..Len(pickings[1].lines) : pickings[1].lines[k].done = pickings[1].lines[k].qty
  /\ InitPickings[1].lines[1].done # InitPickings[1].lines[1].qty
  /\ \E r \in Req : Done(r) /\ req[r].ep = "deliveries" /\ req[r].status = 200
                    /\ Get(req[r].params, "id") = "1"

\* the credential of the header validates with the endpoint: an active
\* android.api.key record for /customer, a user API key for the others
ValidCredential(ep, header) ==
  /\ header # ""
  /\ IF ep = "customer" THEN Matching(keys, StripBearer(header)) # {}
     ELSE StripBearer(header) \in StoredKeys

-----------------------------------------------------------------------------
(* Properties of the notifications *)

\* the positions of the dispatches that the step adds to the request r
NewPosts(r) == (Len(req[r].sent) + 1)..Len(req'[r].sent)

\* C17: when a dispatch of the notification for a written record fails (the
\* POST fails, or recording the outcome on the subscription fails), the
\* record stays written in the request's transaction, it is reported in
\* the result list, no error is counted and the request goes on.
C17_NotifyFailureHarmless ==
  [][\A r \in Req :
       (\E k \in NewPosts(r) : req'[r].sent[k].outcome # "ok") =>
         /\ req'[r].pc = "loop"
         /\ req'[r].errors = req[r].errors
         /\ Len(req'[r].out) = Len(req[r].out) + 1
         /\ \A k \in NewPosts(r) :
              /\ req'[r].out[Len(req'[r].out)].id = req'[r].sent[k].record_id
              /\ req'[r].sent[k].record_id \in req'[r].dirty]_vars

\* C18: no notification is triggered while the batch is in progress, and
\* a batch that is answered with an error has dispatched no webhook event.
C18_NotifyAfterBatch ==
  \A r \in Req :
    /\ InFlight(req[r]) => req[r].events = <<>>
    /\ (Posted(r) /\ req[r].status # 200) => req[r].sent = <<>>

\* the entity name of the events of each endpoint
EntityName(ep) ==
  CASE ep = "customer" -> "customer"
    [] ep = "sales" -> "sale"
    [] ep = "payments" -> "payment"
    [] ep = "visits" -> "visit"

\* C19: for every record that a successful batch reports as created
\* (updated), a notification <entity>.created (<entity>.updated) for that
\* record was triggered.
C19_EventPerWrite ==
  \A r \in Req :
    (Posted(r) /\ req[r].status = 200) =>
      \A k \in 1..Len(req[r].out) :
        \E j \in 1..Len(req[r].events) :
          /\ req[r].events[j].event = EntityName(req[r].ep) \o "." \o req[r].out[k].op
          /\ req[r].events[j].record_id = req[r].out[k].id

\* C20: a notify call dispatches its event to the subscriptions that are
\* active and have the flag of the event set, to each of them once, and to
\* no other subscription.
C20_ExactDispatch ==
  [][\A r \in Req :
       Len(req'[r].events) = Len(req[r].events) + 1 =>
         /\ {req'[r].sent[k].hook : k \in NewPosts(r)} =
              {h.id : h \in {x \in hooks :
                 x.active /\ EventFieldMap[req'[r].events[Len(req'[r].events)].event] \in x.flags}}
         /\ \A k1 \in NewPosts(r), k2 \in NewPosts(r) :
              req'[r].sent[k1].hook = req'[r].sent[k2].hook => k1 = k2
         /\ \A k \in NewPosts(r) :
              /\ req'[r].sent[k].event = req'[r].events[Len(req'[r].events)].event
              /\ req'[r].sent[k].record_id = req'[r].events[Len(req'[r].events)].record_id]_vars

-----------------------------------------------------------------------------
(* Properties of the list endpoints *)

\* the request r is a GET that was answered with a page
Paged(r) == Done(r) /\ req[r].method = "GET" /\ req[r].status = 200 /\ req[r].ep # "customer"

\* C21: the limit of the page is 100 when limit is absent or is not the
\* literal of an integer, and otherwise the integer brought into 1..1000;
\* the offset is 0 when offset is absent or not such a literal, and
\* otherwise the integer or 0 when it is negative; each parameter is
\* decided by its own argument, and the request is answered 200.
C21_Pagination ==
  \A r \in Req :
    (Done(r) /\ req[r].method = "GET" /\ req[r].ep # "customer" /\ req[r].status \notin {401, 429}) =>
      /\ req[r].status = 200
      /\ req[r].resp.limit \in 1..MAX_LIMIT
      /\ req[r].resp.offset >= 0
      /\ req[r].resp.limit =
           IF "limit" \in DOMAIN req[r].params /\ req[r].params["limit"].numeric
           THEN IF req[r].params["limit"].value < 1 THEN 1
                ELSE IF req[r].params["limit"].value > 1000 THEN 1000
                ELSE req[r].params["limit"].value
           ELSE 100
      /\ req[r].resp.offset =
           IF "offset" \in DOMAIN req[r].params /\ req[r].params["offset"].numeric
              /\ req[r].params["offset"].value > 0
           THEN req[r].params["offset"].value
           ELSE 0

\* a page was answered for a limit above the maximum with an offset that
\* is no number
C21_Witness ==
  \E a \in Req :
    /\ Paged(a) /\ "limit" \in DOMAIN req[a].params /\ "offset" \in DOMAIN req[a].params
    /\ req[a].params["limit"].value = 1001 /\ ~req[a].params["offset"].numeric
    /\ req[a].resp.limit = 1000 /\ req[a].resp.offset = 0

\* the limit and the offset that a query string asks for
Requested(query) ==
  [limit |-> IF "limit" \in DOMAIN query /\ query["limit"].numeric
             THEN Min(Max(query["limit"].value, 1), MAX_LIMIT) ELSE DEFAULT_LIMIT,
   offset |-> IF "offset" \in DOMAIN query /\ query["offset"].numeric
              THEN Max(query["offset"].value, 0) ELSE 0]

\* C22: every list endpoint, GET /customer included, answers with the
\* requested limit and offset, with total the number of records that
\* match, and with count the number of records returned, which is
\* min(limit, total - offset) or 0 when that is negative.
C22_PageCounts ==
  \A r \in Req :
    (Done(r) /\ req[r].method = "GET" /\ req[r].status = 200) =>
      /\ {"total", "limit", "offset", "count", "data"} \subseteq DOMAIN req[r].resp
      /\ req[r].resp.limit = Requested(req[r].params).limit
      /\ req[r].resp.offset = Requested(req[r].params).offset
      /\ req[r].resp.total = Cardinality(ListRows(req[r].ep))
      /\ req[r].resp.count = Len(req[r].resp.data)
      /\ req[r].resp.count = Max(0, Min(req[r].resp.limit, req[r].resp.total - req[r].resp.offset))
      /\ req[r].resp.count <= req[r].resp.limit

\* the record a request has stored under the identifier of its i-th
\* submitted record
StoredFor(r, i) ==
  {row \in req[r].persisted : Uid(row) = Get(Items(r)[i], "mobile_uid")}

\* C23: a batch write answered 200 returns count = the number of submitted
\* records = the length of data, and data[i] is the projection of the
\* stored record that carries the mobile_uid of the i-th submitted record.
C23_BatchResponse ==
  \A r \in Req :
    (Posted(r) /\ req[r].status = 200) =>
      /\ "count" \in DOMAIN req[r].resp
      /\ req[r].resp.count = Len(Items(r))
      /\ Len(req[r].resp.data) = Len(Items(r))
      /\ \A i \in 1..Len(Items(r)) :
           \E row \in StoredFor(r, i) : req[r].resp.data[i] = ToDict(req[r].ep, row)

\* the position of the last record of the batch of r that carries uid
LastOf(r, uid) ==
  CHOOSE i \in 1..Len(Items(r)) :
    /\ Get(Items(r)[i], "mobile_uid") = uid
    /\ \A j \in (i + 1)..Len(Items(r)) : Get(Items(r)[j], "mobile_uid") # uid

\* the values the last record that carries uid supplies, as the handler
\* maps them
Supplied(r, uid) == Pop(DictToVals(req[r].ep, Items(r)[LastOf(r, uid)]), "mobile_uid")

\* both requests were batch writes answered 200 without a skipped record,
\* b after a had finished
WroteTwice(a, b) ==
  /\ Posted(a) /\ Posted(b) /\ Sequential(a, b)
  /\ req[a].status = 200 /\ req[b].status = 200
  /\ req[a].errors = 0 /\ req[b].errors = 0

\* the identifiers both requests submitted
Shared(a, b) ==
  {Get(Items(b)[i], "mobile_uid") : i \in 1..Len(Items(b))} \cap
  {Get(Items(a)[i], "mobile_uid") : i \in 1..Len(Items(a))}

\* g is a list request answered 200 that ran after b, with no batch write
\* between b and g
ReadsAfter(g, b) ==
  /\ Done(g) /\ req[g].method = "GET" /\ req[g].status = 200 /\ Sequential(b, g)
  /\ \A c \in Req : (Posted(c) /\ Sequential(c, g)) => (c = b \/ Sequential(c, b))

BadVisit(data) ==
  \/ ~UUID_REGEX(Get(data, "mobile_uid"))
  \/ ~Falsy(Get(data, "memo")) /\ StrLen(Get(data, "memo")) > MAX_MEMO_LENGTH

\* the row holds the values the handler maps from the record
Agrees(ep, row, data) ==
  \A k \in DOMAIN DictToVals(ep, data) : Get(row.vals, k) = DictToVals(ep, data)[k]

Recovered(r) ==
  /\ Done(r) /\ req[r].ep = "visits" /\ req[r].integrity = "unique"
  /\ req[r].reason # "retry"

\* C26: when a visit create hit a uniqueness conflict and was retried as an
\* update, the records of the batch written before the conflicting record
\* are stored: the request commits them together with the retried update.
C26_RecoveryKeepsBatch ==
  \A r \in Req :
    Recovered(r) =>
      \A j \in 1..(req[r].idx - 1) :
        \E row \in req[r].persisted : Agrees("visits", row, Items(r)[j])

\* the search of r after the rollback finds no record with the mobile_uid
\* of the record it was creating
RetryFindsNone(r) ==
  /\ req[r].pc = "retry"
  /\ search(db[req[r].ep], Get(Current(req[r]), "mobile_uid")) = {}

\* C27: when the search after the conflict still finds no record, the
\* request ends there with an error response, and nothing the batch wrote
\* is stored.
C27_RetryFatal ==
  [][\A r \in Req :
       (RetryFindsNone(r) /\ req'[r] # req[r]) =>
         /\ req'[r].pc = "done" /\ req'[r].status = 500
         /\ req'[r].persisted = {}
         /\ db' = db]_vars

\* a batch whose first record was written and whose second record failed
\* in the INSERT and was not found afterwards: the request answered 500
\* and no visit is stored
C27_Witness ==
  \E r \in Req :
    /\ Done(r) /\ req[r].ep = "visits" /\ req[r].integrity # "none"
    /\ req[r].reason = "retry" /\ req[r].status = 500 /\ req[r].idx = 2
    /\ db["visits"] = {}

\* the step appends an update to the results of r
Updates(r) ==
  /\ Len(req'[r].out) = Len(req[r].out) + 1
  /\ req'[r].out[Len(req'[r].out)].op = "updated"

\* the values the handler maps from the record r is processing, without
\* the mobile_uid
Written(r) == Pop(DictToVals(req[r].ep, Current(req[r])), "mobile_uid")

\* C28: a stored record keeps its internal id and its mobile_uid on every
\* step, and an update is a write to the record that carries the submitted
\* mobile_uid: it keeps the id and the mobile_uid and stores every other
\* mapped field.
C28_StableIdentity ==
  [][/\ \A e \in Entities :
          \A row \in db[e] : \E x \in db'[e] : x.id = row.id /\ Uid(x) = Uid(row)
     /\ \A r \in Req :
          Updates(r) =>
            \E old \in req[r].view[req[r].ep] :
              /\ Uid(old) = Get(Current(req[r]), "mobile_uid")
              /\ req'[r].out[Len(req'[r].out)].id = old.id
              /\ Get(req'[r].out[Len(req'[r].out)].vals, "mobile_uid") = Uid(old)
              /\ \A k \in DOMAIN Written(r) :
                   Get(req'[r].out[Len(req'[r].out)].vals, k) = Written(r)[k]]_vars

\* a request updated a stored record with other values, and the record
\* is stored under the same id and mobile_uid
C28_Witness ==
  \E a \in Req, b \in Req :
    /\ Posted(a) /\ Posted(b) /\ Sequential(a, b) /\ req[b].status = 200
    /\ \E row \in req[a].persisted, x \in req[b].persisted :
         /\ x.id = row.id /\ Uid(x) = Uid(row) /\ x.vals # row.vals
         /\ x \in db[route]
         /\ \E k \in 1..Len(req[b].out) : req[b].out[k].op = "updated" /\ req[b].out[k].id = x.id

\* the field of a submitted record that a stored field is mapped from
SourceField(ep, k) ==
  CASE ep = "customer" /\ k = "vat" -> "tax_id"
    [] ep = "customer" /\ k = "mobile_sync_date" -> "date"
    [] ep = "payments" /\ k = "ref" -> "memo"
    [] OTHER -> k

\* C29: an update changes only the fields the submitted record supplies
\* with a non-null value: a stored field whose source field is absent or
\* null keeps its value.
C29_PartialUpdate ==
  [][\A r \in Req :
       Updates(r) =>
         \A old \in req[r].view[req[r].ep] :
           old.id = req'[r].out[Len(req'[r].out)].id =>
             \A k \in DOMAIN old.vals :
               Get(Current(req[r]), SourceField(req[r].ep, k)) = None =>
                 Get(req'[r].out[Len(req'[r].out)].vals, k) = old.vals[k]]_vars

\* the timestamps stored for a client id
Entries(k) == IF k \in DOMAIN rlStore THEN rlStore[k] ELSE <<>>

\* the timestamp is not older than now - 60 s
InWindow(t) == t >= now - Window

\* the timestamps of the client that are not older than now - 60 s
Kept(k) == SelectSeq(Entries(k), InWindow)

\* C30: a check purges exactly the timestamps older than now - 60 s: a
\* timestamp t >= now - 60 s (t = now - 60 s included) stays in the list
\* and counts against the limit, a timestamp t < now - 60 s is removed.
C30_PurgeBoundary ==
  [][rlChecks' = rlChecks + 1 =>
       /\ rlLast'.allowed = (Len(Kept(rlLast'.key)) < RATE_LIMIT_REQUESTS)
       /\ rlStore'[rlLast'.key] =
            IF rlLast'.allowed THEN Append(Kept(rlLast'.key), now) ELSE Kept(rlLast'.key)]_vars

\* the step is a check of the key that the last check rejected, made
\* retry_after seconds after that rejection; no check lies in between
RetriesOnTime ==
  /\ rlChecks' = rlChecks + 1
  /\ rlChecks > 0 /\ ~rlLast.allowed
  /\ rlLast'.key = rlLast.key
  /\ now = rlLast.at + rlLast.retry_after * TicksPerSecond

\* C31: a client rejected with retry_after = r whose next request comes r
\* seconds later, with no other request of the key in between, is admitted.
C31_WindowSlides ==
  [][RetriesOnTime => rlLast'.allowed]_vars

Fresh(t) == t > now - Window

\* the timestamps of the client that have not expired
Unexpired(k) == SelectSeq(Entries(k), Fresh)

\* C33: a rejected check leaves the list of its key as it was, less the
\* expired timestamps: the rejected request is not recorded.  A check,
\* admitted or rejected, leaves the list of every other key unchanged.
C33_RejectedNotRecorded ==
  [][rlChecks' = rlChecks + 1 =>
       /\ DOMAIN rlStore' = DOMAIN rlStore \cup {rlLast'.key}
       /\ \A k \in DOMAIN rlStore : k # rlLast'.key => rlStore'[k] = rlStore[k]
       /\ ~rlLast'.allowed => rlStore'[rlLast'.key] = Unexpired(rlLast'.key)]_vars

\* a check of one key was rejected while another key has a list of its own
C33_Witness ==
  /\ rlChecks > 0 /\ ~rlLast.allowed /\ rlLast.at = now
  /\ \E k \in DOMAIN rlStore : k # rlLast.key /\ Len(rlStore[k]) > 0

\* the number of timestamps of the list that have not expired
FreshCount(list) == Len(SelectSeq(list, Fresh))

\* C34: when requests of one key run check_rate_limit at the same time,
\* at most 100 requests of the key are admitted inside a 60-second window,
\* and the table holds the timestamp of every admitted request that has
\* not expired.
C34_ConcurrentChecks ==
  \A k \in DOMAIN rlAdmitted :
    /\ FreshCount(rlAdmitted[k]) <= RATE_LIMIT_REQUESTS
    /\ FreshCount(Entries(k)) >= FreshCount(rlAdmitted[k])

\* the admitted requests of a header that have not expired
AdmittedFor(header) ==
  IF ClientId(header) \in DOMAIN rlAdmitted THEN FreshCount(rlAdmitted[ClientId(header)]) ELSE 0

\* C35: two headers that carry the same credential, one as "Bearer <key>"
\* and one as the raw key, are counted in one window: together they are
\* admitted at most 100 times in 60 seconds.
C35_OneWindowPerCredential ==
  \A h1 \in RLHeaders, h2 \in RLHeaders :
    (h1 # h2 /\ StripBearer(h1) = StripBearer(h2)) =>
      AdmittedFor(h1) + AdmittedFor(h2) <= RATE_LIMIT_REQUESTS

\* the position of the first record of the batch of r that carries uid
FirstOf(r, uid) ==
  CHOOSE i \in 1..Len(Items(r)) :
    /\ Get(Items(r)[i], "mobile_uid") = uid
    /\ \A j \in 1..(i - 1) : Get(Items(r)[j], "mobile_uid") # uid

\* the batch of r, answered 200 with no record skipped, carries uid more
\* than once, and no record with uid was stored when r began
TwiceInBatch(r, uid) ==
  /\ Posted(r) /\ req[r].status = 200 /\ req[r].errors = 0
  /\ Submits(r, uid) /\ uid \notin req[r].seen
  /\ FirstOf(r, uid) < LastOf(r, uid)

\* C36: when a batch carries the same unseen mobile_uid twice, the first
\* record creates the record and the later one updates it in the same
\* request: one record is stored, with the values of the later record, and
\* both response entries carry that record's id.
C36_DuplicateInBatch ==
  \A r \in Req :
    \A uid \in {U1, U2, UBad} :
      TwiceInBatch(r, uid) =>
        /\ req[r].out[FirstOf(r, uid)].op = "created"
        /\ req[r].out[LastOf(r, uid)].op = "updated"
        /\ req[r].resp.data[FirstOf(r, uid)].id = req[r].resp.data[LastOf(r, uid)].id
        /\ Cardinality({row \in req[r].persisted : Uid(row) = uid}) = 1
        /\ Cardinality(Stored(uid)) = 1
        /\ \A row \in req[r].persisted :
             Uid(row) = uid =>
               /\ row.id = req[r].resp.data[LastOf(r, uid)].id
               /\ \A k \in DOMAIN Supplied(r, uid) : Get(row.vals, k) = Supplied(r, uid)[k]

\* a batch of two records with the same new mobile_uid was answered 200,
\* and the record stored holds the name of the second
C36_Witness ==
  \E r \in Req :
    /\ TwiceInBatch(r, U1) /\ Items(r) = <<RecA, RecB>>
    /\ \E row \in req[r].persisted : Uid(row) = U1 /\ row \in db[route]
    /\ req[r].resp.data[1].id = req[r].resp.data[2].id

\* C37: every record in the data of a batch write answered 200 is stored
\* by the request, with the values the response reports.
C37_ReportedIsStored ==
  \A r \in Req :
    (Posted(r) /\ req[r].status = 200) =>
      \A k \in 1..Len(req[r].resp.data) :
        \E row \in req[r].persisted :
          /\ row.id = req[r].resp.data[k].id
          /\ ToDict(req[r].ep, row) = req[r].resp.data[k]


\* C38: a delivery in state done keeps its state and the quantities of its
\* lines through every request, and no request adds or removes a delivery.
C38_DoneIsAbsorbing ==
  [][/\ DOMAIN pickings' = DOMAIN pickings
     /\ \A i \in DOMAIN pickings :
          pickings[i].state = "done" => pickings'[i] = pickings[i]]_vars

\* a request marked a delivery done and a later request for the same
\* delivery was refused; the delivery that shipped short still is as it was
C38_Witness ==
  /\ \E a \in Req, b \in Req :
       /\ Done(a) /\ req[a].ep = "deliveries" /\ req[a].status = 200
       /\ Done(b) /\ req[b].ep = "deliveries" /\ req[b].reason = "done"
       /\ Get(req[a].params, "id") = Get(req[b].params, "id")
  /\ pickings[2] = InitPickings[2]
  /\ pickings[2].lines[1].done # pickings[2].lines[1].qty


\* every row of the table a list endpoint reads
Table(ep) ==
  CASE ep \in Entities -> db[ep]
    [] ep = "deliveries" -> PickingRows
    [] ep = "products" -> Products

\* the rows whose records a response lists
Returned(r) ==
  {row \in Table(req[r].ep) : \E k \in 1..Len(req[r].resp.data) : req[r].resp.data[k].id = row.id}

\* a GET request answered with a list
Listing(r) == Done(r) /\ req[r].method = "GET" /\ req[r].status = 200

\* the row was modified at the datetime or later
ModifiedSince(row, since) ==
  /\ parse_datetime(Get(row.vals, "write_date")).ok
  /\ CompareFrom(DateFields(parse_datetime(Get(row.vals, "write_date"))), DateFields(since), 1) >= 0

\* whether an argument is a value of the declared type, and the value it
\* denotes there
Converts(type, value) == IF type = "int" THEN value.numeric ELSE TRUE
Denotes(type, value) ==
  CASE type = "int" -> ToString(value.value)
    [] type = "str" -> value
    [] type = "bool" -> IF value \in {"true", "TRUE", "1", "yes", "Yes"} THEN "true" ELSE "false"

\* the parameters of the allow-list, since apart, given with a value of
\* their type
EqualityFilters(ep, args) ==
  {p \in (DOMAIN AllowedFilters(ep) \cap DOMAIN args) \ {"since"} :
     Converts(AllowedFilters(ep)[p].type, args[p])}

\* C39: every record a list endpoint returns satisfies the base predicate
\* of the endpoint, was modified at or after a supplied since, and equals
\* the value of every other recognised filter in that filter's field.
C39_FiltersApplied ==
  \A r \in Req :
    Listing(r) =>
      \A row \in Returned(r) :
        /\ row \in ListRows(req[r].ep)
        /\ ("since" \in DOMAIN req[r].params /\ parse_datetime(req[r].params["since"]).ok) =>
             ModifiedSince(row, parse_datetime(req[r].params["since"]))
        /\ req[r].ep # "customer" =>
             \A p \in EqualityFilters(req[r].ep, req[r].params) :
               Get(row.vals, AllowedFilters(req[r].ep)[p].field)
                 = Denotes(AllowedFilters(req[r].ep)[p].type, req[r].params[p])


\* the rows of the base domain that pass the filters of the allow-list
\* given with a value of their type; an archived product is listed only
\* when active is given
ExpectedRows(ep, args) ==
  {row \in ListRows(ep) :
     /\ (ep = "products" /\ "active" \notin DOMAIN args) => Get(row.vals, "active") # "false"
     /\ ("since" \in DOMAIN args /\ parse_datetime(args["since"]).ok) =>
          ModifiedSince(row, parse_datetime(args["since"]))
     /\ \A p \in EqualityFilters(ep, args) :
          Get(row.vals, AllowedFilters(ep)[p].field) = Denotes(AllowedFilters(ep)[p].type, args[p])}

\* C40: no query string makes a list request fail; a parameter outside the
\* allow-list and a value that is not of its parameter's type have no
\* effect, and the records listed are those that pass every other filter.
C40_InvalidFilterDropped ==
  \A r \in Req :
    (Done(r) /\ req[r].method = "GET") =>
      /\ req[r].status \in {200, 401, 429}
      /\ (req[r].status = 200 /\ req[r].ep # "customer") =>
           req[r].resp = paginated_response(req[r].ep, ExpectedRows(req[r].ep, req[r].params),
                                             get_pagination_params(req[r].params))

\* a list was returned for a query string with a since that excludes a
\* record, a partner_id that is no integer and an unknown parameter
C40_Witness ==
  \E r \in Req :
    /\ Listing(r) /\ req[r].ep = "deliveries"
    /\ req[r].params = [since |-> DT1, partner_id |-> Abc, order |-> "name"]
    /\ req[r].resp.total > 0
    /\ req[r].resp.total < Cardinality(ListRows("deliveries"))

====
